---------------------------- MODULE Spec2Model ----------------------------
(***************************************************************************)
(* Model of the SSD IMS integration: the session client                    *)
(* (custom_components/ssd_ims/api_client.py, class SsdImsApiClient), the   *)
(* stable POD id of models.py and the poll cycle of coordinator.py.        *)
(*                                                                         *)
(* The client is used by one cooperative task at a time.  A call of one of *)
(* its coroutines is a sequence of steps, one per network exchange: the    *)
(* code between two awaits runs atomically on the event loop.  The backend *)
(* is the environment: it holds a POD list and chart data, and the status, *)
(* content type and success of every response are chosen                   *)
(* nondeterministically.                                                   *)
(***************************************************************************)
EXTENDS Integers, Sequences, FiniteSets, TLC

VARIABLES
    authenticated,   \* SsdImsApiClient._authenticated
    session_token,   \* SsdImsApiClient._session_token
    username,        \* SsdImsApiClient._username
    password,        \* SsdImsApiClient._password
    pc,              \* position of the running call: which response it awaits
    op,              \* the operation that is running (or ran last)
    phase,           \* get_chart_data / get_metering_data: which request is out
    result,          \* outcome of the last completed call
    args,            \* credentials the running authenticate was called with
    pre,             \* client state when the call started
    nLogin,          \* login requests sent by the current authenticated request
    nSend,           \* sends of the original request by the current request
    first,           \* first response of the current authenticated request
    login,           \* response of the login request of the current call
    retry,           \* response of the retried request
    probe,           \* response handed to a direct _is_session_expired call
    probeOut,        \* what that call returned
    hist,            \* "fresh": no login has succeeded since construction;
                     \* "session": one has, since construction or the last
                     \* logout; "loggedout": none has since the last logout
    pod_id,          \* the pod_id argument of get_chart_data / get_metering_data
    backend,         \* what the portal holds: its POD list and its chart data
    text,            \* PointOfDelivery.text of a POD whose id is read directly
    idOut,           \* what reading PointOfDelivery.id gave for it
    config,          \* SsdImsDataCoordinator.config
    pods,            \* SsdImsDataCoordinator.pods, the POD registry
    cpc,             \* position of _async_update_data: which await it is at
    pod_ids,         \* the local pod_ids of the running cycle
    pod_index,       \* index of the POD being processed (from 1)
    period_index,    \* index of the period being fetched (from 1)
    chart_data_by_period,  \* the local dict of the POD being processed
    all_pod_data,    \* the local result dict of the running cycle
    outcome,         \* how the last cycle ended, with what it returned
    found,           \* the list of PODs of the last discovery that succeeded
    cycle,           \* how many cycles have started
    log,             \* the get_chart_data calls of the cycle and how each ended
    entry,           \* the config entry: its version, the options it stores
                     \* and how its migration went
    update_interval, \* SsdImsDataCoordinator.update_interval, in minutes
    refreshes,       \* how often async_request_refresh has been called
    old_config,      \* old_config of the last update_config call
    second           \* a second _make_authenticated_request on the same
                     \* client: where it is and how it ended

vars == <<authenticated, session_token, username, password, pc, op, phase,
          result, args, pre, nLogin, nSend, first, login, retry, probe,
          probeOut, hist, pod_id, backend, text, idOut, config, pods, cpc,
          pod_ids, pod_index, period_index, chart_data_by_period,
          all_pod_data, outcome, found, cycle, log, entry, update_interval,
          refreshes, old_config, second>>

client == <<authenticated, session_token, username, password>>

\* The state of the poll orchestrator and of its running cycle, and the
\* config entry it is set up from.
coordinator == <<config, pods, cpc, pod_ids, pod_index, period_index,
                 chart_data_by_period, all_pod_data, outcome, found, cycle,
                 log, entry, update_interval, refreshes, old_config>>

\* The input and output of a direct read of PointOfDelivery.id.
reader == <<text, idOut>>

-----------------------------------------------------------------------------
(* Values *)

\* Python's None, for the Optional[str] fields.
None == "<None>"

\* Python truthiness of an Optional[str]: None and "" are falsy.
Falsy(s) == s = None \/ s = ""

\* Credentials a caller may pass to authenticate (str, possibly empty).
Credentials ==
    { <<"alice", "pw1">>, <<"bob", "pw2">>, <<"", "pw1">>, <<"alice", "">> }

\* Values of the SsdAccessToken cookie of a login response (None: no cookie).
CookieValues == { None, "abc123", "tok2" }

-----------------------------------------------------------------------------
(* Content types, as sequences of characters *)

AppJson == <<"a","p","p","l","i","c","a","t","i","o","n","/","j","s","o","n">>
TextHtml == <<"t","e","x","t","/","h","t","m","l">>
TextHtmlUpper == <<"T","E","X","T","/","H","T","M","L">>
TextHtmlMixed == <<"T","e","x","t","/","H","t","m","l">>
TextHtmNear == <<"t","e","x","t","/","h","t","m">>
TextPlain == <<"t","e","x","t","/","p","l","a","i","n">>
CharsetSuffix == <<";"," ","c","h","a","r","s","e","t","=","u","t","f","-","8">>
NoHeader == << >>

UpperToLower ==
    ("A" :> "a") @@ ("B" :> "b") @@ ("C" :> "c") @@ ("D" :> "d") @@
    ("E" :> "e") @@ ("F" :> "f") @@ ("G" :> "g") @@ ("H" :> "h") @@
    ("I" :> "i") @@ ("J" :> "j") @@ ("K" :> "k") @@ ("L" :> "l") @@
    ("M" :> "m") @@ ("N" :> "n") @@ ("O" :> "o") @@ ("P" :> "p") @@
    ("Q" :> "q") @@ ("R" :> "r") @@ ("S" :> "s") @@ ("T" :> "t") @@
    ("U" :> "u") @@ ("V" :> "v") @@ ("W" :> "w") @@ ("X" :> "x") @@
    ("Y" :> "y") @@ ("Z" :> "z")

\* str.lower(), character by character.
LowerChar(c) == IF c \in DOMAIN UpperToLower THEN UpperToLower[c] ELSE c

Lower(s) == [i \in 1..Len(s) |-> LowerChar(s[i])]

\* Python's `needle in hay` for strings.
Contains(needle, hay) ==
    \E i \in 1..(Len(hay) - Len(needle) + 1) :
        SubSeq(hay, i, i + Len(needle) - 1) = needle

\* str(n) of a non-negative integer, as in the f-string of an error message.
RECURSIVE Str(_)
Str(n) ==
    LET digits == <<"0","1","2","3","4","5","6","7","8","9">> IN
    IF n < 10 THEN <<digits[n + 1]>>
    ELSE Str(n \div 10) \o <<digits[(n % 10) + 1]>>

-----------------------------------------------------------------------------
(* Messages of the raised errors, as sequences of characters *)

\* aiohttp's ContentTypeError; the lower-cased content type follows.
MsgMimetype ==
    <<"A","t","t","e","m","p","t"," ","t","o"," ","d","e","c","o","d","e",
      " ","J","S","O","N"," ","w","i","t","h"," ","u","n","e","x","p","e",
      "c","t","e","d"," ","m","i","m","e","t","y","p","e",":"," ">>

\* str() of the error of kind k raised for status s about the POD i:
\*   NotAuthenticated     Exception("Not authenticated")
\*   ReauthFailed         Exception("Re-authentication failed")
\*   ApiError             Exception("API error: <status>")
\*   ApiErrorAfterReauth  Exception("API error after re-authentication: <status>")
\*   ContentTypeError     aiohttp's error of json() on a non-JSON content type
\*   JSONDecodeError      json() on a body that is not JSON
\*   ClientError          transport failure of the request
\*   ValidationError      the decoded JSON does not fit the model class
\*   PodNotFound          Exception("POD not found for stable ID: ...")
\*   PodTextNotFound      Exception("POD text not found for stable ID: ...")
\*   ChartDataInvalid     Exception("Invalid chart data response format") or
\*                        Exception("Chart data validation failed: ...")
\*   NoPodsFound          Exception("No points of delivery found")
MessageOf(k, s, i) ==
    CASE k = "NotAuthenticated" ->
            <<"N","o","t"," ","a","u","t","h","e","n","t","i","c","a","t",
              "e","d">>
      [] k = "ReauthFailed" ->
            <<"R","e","-","a","u","t","h","e","n","t","i","c","a","t","i",
              "o","n"," ","f","a","i","l","e","d">>
      [] k = "ApiError" ->
            <<"A","P","I"," ","e","r","r","o","r",":"," ">> \o Str(s)
      [] k = "ApiErrorAfterReauth" ->
            <<"A","P","I"," ","e","r","r","o","r"," ","a","f","t","e","r",
              " ","r","e","-","a","u","t","h","e","n","t","i","c","a","t",
              "i","o","n",":"," ">> \o Str(s)
      [] k = "ContentTypeError" -> MsgMimetype
      [] k = "JSONDecodeError" ->
            <<"E","x","p","e","c","t","i","n","g"," ","v","a","l","u","e",
              ":"," ","l","i","n","e"," ","1"," ","c","o","l","u","m","n",
              " ","1"," ","(","c","h","a","r"," ","0",")">>
      [] k = "ClientError" ->
            <<"C","a","n","n","o","t"," ","c","o","n","n","e","c","t"," ",
              "t","o"," ","h","o","s","t"," ","i","m","s",".","s","s","d",
              ".","s","k",":","4","4","3">>
      [] k = "ValidationError" ->
            <<"1"," ","v","a","l","i","d","a","t","i","o","n"," ","e","r",
              "r","o","r"," ","f","o","r"," ","P","o","i","n","t","O","f",
              "D","e","l","i","v","e","r","y">>
      [] k = "PodNotFound" ->
            <<"P","O","D"," ","n","o","t"," ","f","o","u","n","d"," ","f",
              "o","r"," ","s","t","a","b","l","e"," ","I","D",":"," ">> \o i
      [] k = "PodTextNotFound" ->
            <<"P","O","D"," ","t","e","x","t"," ","n","o","t"," ","f","o",
              "u","n","d"," ","f","o","r"," ","s","t","a","b","l","e"," ",
              "I","D",":"," ">> \o i
      [] k = "ChartDataInvalid" ->
            <<"I","n","v","a","l","i","d"," ","c","h","a","r","t"," ","d",
              "a","t","a"," ","r","e","s","p","o","n","s","e"," ","f","o",
              "r","m","a","t">>
      [] k = "NoPodsFound" ->
            <<"N","o"," ","p","o","i","n","t","s"," ","o","f"," ","d","e",
              "l","i","v","e","r","y"," ","f","o","u","n","d">>
      [] OTHER -> << >>

-----------------------------------------------------------------------------
(* PointOfDelivery and ChartData (models.py) *)

\* The character class [A-Z0-9].
UpperAlnum ==
    { "A","B","C","D","E","F","G","H","I","J","K","L","M","N","O","P","Q","R",
      "S","T","U","V","W","X","Y","Z","0","1","2","3","4","5","6","7","8","9" }

\* The repetition {16,20} of both patterns.
MinIdLen == 16
MaxIdLen == 20

\* How many of the first max characters of t a greedy [A-Z0-9]{..,max}
\* anchored at the start consumes.
RECURSIVE LeadingRun(_, _)
LeadingRun(t, max) ==
    IF max = 0 \/ t = << >> THEN 0
    ELSE IF Head(t) \notin UpperAlnum THEN 0
    ELSE 1 + LeadingRun(Tail(t), max - 1)

\* Faulty variant: the quantifier is {16} and stops after sixteen characters.
SearchLeadingIdFixed(t) ==
    LET n == LeadingRun(t, MinIdLen) IN
    IF n >= MinIdLen THEN [ok |-> TRUE, id |-> SubSeq(t, 1, n)]
    ELSE [ok |-> FALSE, id |-> << >>]

\* re.search(r"^([A-Z0-9]{16,20})", self.text) and its group(1).
SearchLeadingId(t) ==
    LET n == LeadingRun(t, MaxIdLen) IN
    IF n >= MinIdLen THEN [ok |-> TRUE, id |-> SubSeq(t, 1, n)]
    ELSE [ok |-> FALSE, id |-> << >>]

\* re.match(r"^[A-Z0-9]{16,20}$", self.text); $ also matches before a final
\* newline.
MatchWholeId(t) ==
    LET n == LeadingRun(t, MaxIdLen) IN
    /\ n >= MinIdLen
    /\ \/ n = Len(t)
       \/ n + 1 = Len(t) /\ t[n + 1] = "\n"

\* PointOfDelivery.id: ok with the stable id, or not ok for the ValueError
\* "Cannot extract valid POD ID from text".
PointOfDeliveryId(t) ==
    LET m == SearchLeadingId(t) IN
    IF m.ok /\ MinIdLen <= Len(m.id) /\ Len(m.id) <= MaxIdLen THEN m
    ELSE IF MatchWholeId(t) THEN [ok |-> TRUE, id |-> t]
    ELSE [ok |-> FALSE, id |-> << >>]

\* PODs of the upstream list: text is the descriptor, value the identifier
\* the portal assigned for the session.
Pod1 ==
    [text |->
        <<"9","9","X","X","X","1","2","3","4","5","6","0","0","0","0","G",
          " ","(","H","o","m","e",")">>,
     value |-> "v1"]

\* A POD whose text is the bare number.
Pod2 ==
    [text |->
        <<"2","4","Z","S","S","9","8","7","6","5","4","3","2","1","0","X">>,
     value |-> "v2"]

\* A POD whose session identifier is empty.
PodNoValue ==
    [text |->
        <<"1","1","A","A","A","0","0","0","0","0","0","0","0","0","0","Z",
          " ","-"," ","f","l","a","t">>,
     value |-> ""]

\* A POD whose text holds no number.
PodBad ==
    [text |-> <<"G","a","r","a","g","e"," ","m","e","t","e","r">>,
     value |-> "v4"]

\* A second descriptor of the number of Pod1, with another name and another
\* session identifier.
PodDup ==
    [text |->
        <<"9","9","X","X","X","1","2","3","4","5","6","0","0","0","0","G",
          " ","(","B","a","r","n",")">>,
     value |-> "v5"]

Id1 == PointOfDeliveryId(Pod1.text).id
Id2 == PointOfDeliveryId(Pod2.text).id
Id3 == PointOfDeliveryId(PodNoValue.text).id

\* An Optional[float] of a response: << >> is null or a missing key, <<x>>
\* the number x.
Null == << >>

\* Chart responses, with the keys of the API.
RawChartFull ==
    [meteringDatetime |-> <<1, 2>>,
     actualConsumption |-> << <<3>>, <<4>> >>,
     actualSupply |-> << <<1>>, Null >>,
     idleConsumption |-> << >>,
     idleSupply |-> << Null, <<2>> >>,
     sumActualConsumption |-> <<7>>,
     sumActualSupply |-> <<1>>,
     sumIdleConsumption |-> Null,
     sumIdleSupply |-> <<2>>]

\* No timestamps, and the other keys filled all the same.
RawChartNoTimestamps ==
    [meteringDatetime |-> << >>,
     actualConsumption |-> << <<3>> >>,
     actualSupply |-> << >>,
     idleConsumption |-> << >>,
     idleSupply |-> << >>,
     sumActualConsumption |-> <<9>>,
     sumActualSupply |-> <<9>>,
     sumIdleConsumption |-> <<9>>,
     sumIdleSupply |-> Null]

RawChartEmpty ==
    [meteringDatetime |-> << >>,
     actualConsumption |-> << >>,
     actualSupply |-> << >>,
     idleConsumption |-> << >>,
     idleSupply |-> << >>,
     sumActualConsumption |-> Null,
     sumActualSupply |-> Null,
     sumIdleConsumption |-> Null,
     sumIdleSupply |-> Null]

\* ChartData(): every list empty, every sum 0.0.
EmptyChartData ==
    [metering_datetime |-> << >>,
     actual_consumption |-> << >>,
     actual_supply |-> << >>,
     idle_consumption |-> << >>,
     idle_supply |-> << >>,
     sum_actual_consumption |-> 0,
     sum_actual_supply |-> 0,
     sum_idle_consumption |-> 0,
     sum_idle_supply |-> 0]

\* validate_float_lists: the None entries of a list are dropped.
RECURSIVE DropNulls(_)
DropNulls(l) ==
    IF l = << >> THEN << >>
    ELSE IF Head(l) = Null THEN DropNulls(Tail(l))
    ELSE <<Head(l)[1]>> \o DropNulls(Tail(l))

\* validate_sum_fields: None becomes 0.0.
SumOrZero(x) == IF x = Null THEN 0 ELSE x[1]

\* ChartData(**data) for a dict that passes validation.
ValidatedChartData(d) ==
    [metering_datetime |-> d.meteringDatetime,
     actual_consumption |-> DropNulls(d.actualConsumption),
     actual_supply |-> DropNulls(d.actualSupply),
     idle_consumption |-> DropNulls(d.idleConsumption),
     idle_supply |-> DropNulls(d.idleSupply),
     sum_actual_consumption |-> SumOrZero(d.sumActualConsumption),
     sum_actual_supply |-> SumOrZero(d.sumActualSupply),
     sum_idle_consumption |-> SumOrZero(d.sumIdleConsumption),
     sum_idle_supply |-> SumOrZero(d.sumIdleSupply)]

\* Rows of a metering response, as lists of positional values: a row of ten
\* values with a null and a zero measurement, the row of six values of
\* mock_metering_response, and a row of twelve values whose odd offsets are
\* filled.
MeteringRowsResponse ==
    << << <<"1","0",":","1","5","Z">>, <<1>>, <<13>>, Null, Null, Null,
          <<0>>, Null, <<72>>, Null >>,
       << <<"1","0",":","3","0","Z">>, <<2>>, <<13>>, <<0>>, <<0>>, <<72>> >>,
       << <<"1","0",":","4","5","Z">>, <<3>>, <<5>>, <<99>>, <<6>>, <<99>>,
          Null, <<99>>, <<8>>, <<99>>, <<99>>, <<99>> >> >>

\* str.replace("Z", "+00:00") on the text t.
RECURSIVE ReplaceZ(_)
ReplaceZ(t) ==
    IF t = << >> THEN << >>
    ELSE (IF Head(t) = "Z" THEN <<"+","0","0",":","0","0">> ELSE <<Head(t)>>)
         \o ReplaceZ(Tail(t))

\* Faulty variant: a null measurement is stored as zero.
MeteringDataOfNullAsZero(values) ==
    [metering_datetime |-> ReplaceZ(values[1]),
     period |-> values[2][1],
     actual_consumption |-> <<SumOrZero(values[3])>>,
     actual_supply |-> <<SumOrZero(values[5])>>,
     idle_consumption |-> <<SumOrZero(values[7])>>,
     idle_supply |-> <<SumOrZero(values[9])>>]

\* MeteringData(...) of one row (lines 268-281): offsets 0, 1, 2, 4, 6, 8 of
\* values, a None measurement staying None.
MeteringDataOf(values) ==
    [metering_datetime |-> ReplaceZ(values[1]),
     period |-> values[2][1],
     actual_consumption |-> values[3],
     actual_supply |-> values[5],
     idle_consumption |-> values[7],
     idle_supply |-> values[9]]

\* The loop over response_model.rows (lines 263-282): a row of fewer than ten
\* values adds nothing.
RECURSIVE MeteringRows(_)
MeteringRows(rows) ==
    IF rows = << >> THEN << >>
    ELSE (IF Len(Head(rows)) >= 10 THEN <<MeteringDataOf(Head(rows))>>
          ELSE << >>)
         \o MeteringRows(Tail(rows))

\* What the portal holds when nothing else is said: a POD without stable id,
\* a regular POD, and a POD whose session identifier is empty.
DefaultBackend ==
    [pods |-> <<PodBad, Pod1, PodNoValue>>, chart |-> RawChartFull,
     rows |-> MeteringRowsResponse]

\* The decoded body of a response that carries nothing of the endpoint.
NoData == [pods |-> << >>, chart |-> RawChartEmpty]

\* The value carried by an outcome that returns none.
NoPayload == [pods |-> << >>, chart |-> EmptyChartData]

-----------------------------------------------------------------------------
(* Responses of the backend *)

Statuses == { 200, 401, 500 }

\* body: "good" decodes to JSON of the endpoint's shape, "badschema" decodes
\* to JSON of another shape, "garbage" does not decode.
Bodies == { "good", "badschema", "garbage" }

MainContentTypes == { AppJson, TextHtml \o CharsetSuffix, TextPlain }

\* failed: the request raised a transport error (aiohttp.ClientError, timeout)
\* instead of producing a response.  data: what a "good" body decodes to, the
\* POD list at the POD endpoint and the chart dict at the chart endpoint.
TransportFailure ==
    [failed |-> TRUE, status |-> 0, ctype |-> NoHeader, body |-> "garbage",
     cookie |-> None, data |-> NoData]

NoResp ==
    [failed |-> FALSE, status |-> 0, ctype |-> NoHeader, body |-> "garbage",
     cookie |-> None, data |-> NoData]

\* The data of a response with body b when the portal holds d.
DataOf(b, d) == IF b = "good" THEN d ELSE NoData

ApiResponses ==
    { [failed |-> FALSE, status |-> s, ctype |-> c, body |-> b, cookie |-> None,
       data |-> DataOf(b, backend)] :
        s \in Statuses, c \in MainContentTypes, b \in { "good", "garbage" } }
    \cup { [failed |-> FALSE, status |-> 200, ctype |-> AppJson,
            body |-> "badschema", cookie |-> None, data |-> NoData] }
    \cup { TransportFailure }

LoginResponses ==
    { [failed |-> FALSE, status |-> 200, ctype |-> AppJson, body |-> b,
       cookie |-> k, data |-> NoData] : b \in Bodies, k \in CookieValues }
    \cup { [failed |-> FALSE, status |-> 401, ctype |-> AppJson,
            body |-> "garbage", cookie |-> None, data |-> NoData],
           [failed |-> FALSE, status |-> 200, ctype |-> TextHtml \o CharsetSuffix,
            body |-> "garbage", cookie |-> None, data |-> NoData],
           TransportFailure }


-----------------------------------------------------------------------------
(* Outcomes of a call: a returned value or a raised error *)

\* data: the decoded JSON, then the list of PODs or the ChartData made of it.
Value(b, d) ==
    [kind |-> "value", status |-> 200, val |-> b, msg |-> << >>, data |-> d]

Bool(b) ==
    [kind |-> "bool", status |-> 0, val |-> IF b THEN "true" ELSE "false",
     msg |-> << >>, data |-> NoPayload]

ErrorWith(k, s, m) ==
    [kind |-> k, status |-> s, val |-> "", msg |-> m, data |-> NoPayload]

\* The error of kind k, raised by the running call.
Error(k, s) == ErrorWith(k, s, MessageOf(k, s, pod_id))

NoResult ==
    [kind |-> "none", status |-> 0, val |-> "", msg |-> << >>,
     data |-> NoPayload]

Pending ==
    [kind |-> "pending", status |-> 0, val |-> "", msg |-> << >>,
     data |-> NoPayload]

\* No second request has been made.
SecondIdle == [pc |-> "idle", result |-> NoResult, calls |-> 0]

IsError(o) == o.kind \notin { "value", "bool", "none", "pending" }

\* The spec's ApiError(status): both messages of the code that start "API error".
IsApiError(o) == o.kind \in { "ApiError", "ApiErrorAfterReauth" }

-----------------------------------------------------------------------------
(* Pure helpers of the client *)

\* Faulty variant: the cookie is looked up under a name the backend does not set.
ExtractSessionTokenWrongName(r) == None

\* _extract_session_token: the value of the SsdAccessToken cookie, or None.
ExtractSessionToken(r) == r.cookie

\* Faulty variant: the content type is searched without lower-casing it.
IsSessionExpiredCaseSensitive(r) == Contains(TextHtml, r.ctype)

\* _is_session_expired: "text/html" in headers.get("content-type", "").lower()
IsSessionExpired(r) == Contains(TextHtml, Lower(r.ctype))

\* aiohttp's ClientResponse.json() accepts only an application/json content type.
IsJsonContentType(ct) ==
    Len(ct) >= Len(AppJson) /\ SubSeq(Lower(ct), 1, Len(AppJson)) = AppJson

\* `await response.json()` as called at api_client.py:178 and :188.
JsonOf(r) ==
    IF ~IsJsonContentType(r.ctype)
    THEN ErrorWith("ContentTypeError", r.status, MsgMimetype \o Lower(r.ctype))
    ELSE IF r.body = "garbage" THEN Error("JSONDecodeError", r.status)
    ELSE Value(r.body, r.data)

\* Faulty variant: the body is decoded whatever the status.
FirstOutcomeNoStatusCheck(r) == JsonOf(r)

\* The final `if response.status == 200 ... else raise` of a request, for the
\* first response (lines 187-190).
FirstOutcome(r) ==
    IF r.status = 200 THEN JsonOf(r) ELSE Error("ApiError", r.status)

\* Faulty variant: the retried response is decoded whatever its status.
RetryOutcomeNoStatusCheck(r) == JsonOf(r)

\* The same for the retried request (lines 177-183).
RetryOutcome(r) ==
    IF r.status = 200 THEN JsonOf(r) ELSE Error("ApiErrorAfterReauth", r.status)

\* Faulty variant: a 200 login response is accepted without validating its body.
LoginAcceptedNoValidation(l) == ~l.failed /\ l.status = 200

\* authenticate's verdict on a login response (lines 85-111): 200 and a body
\* that decodes and passes AuthResponse(**data).
LoginAccepted(l) ==
    /\ ~l.failed
    /\ l.status = 200
    /\ JsonOf(l).kind = "value"
    /\ l.body = "good"

\* Faulty variant: the request is retried whatever re-authentication returned.
RetryAlways(l) == TRUE

\* `if await self._reauthenticate():` (line 169): the original request is
\* retried only when the login was accepted.
ReauthSucceeded(l) == LoginAccepted(l)

\* get_points_of_delivery, after its request (lines 205-215): the list of
\* PointOfDelivery objects made of the decoded JSON.
PodsOutcome(o) ==
    IF o.kind # "value" THEN o
    ELSE IF o.val # "good" THEN Error("ValidationError", 0)
    ELSE Value("good", [pods |-> o.data.pods, chart |-> EmptyChartData])

\* Faulty variant: a response without timestamps is validated like any other.
ChartOutcomeNoEmptyCheck(o) ==
    IF o.kind # "value" THEN o
    ELSE IF o.val # "good" THEN Error("ChartDataInvalid", 0)
    ELSE Value("good", [pods |-> << >>,
                        chart |-> ValidatedChartData(o.data.chart)])

\* get_chart_data, after its chart request (lines 326-385).
ChartOutcome(o) ==
    IF o.kind # "value" THEN o
    ELSE IF o.val # "good" THEN Error("ChartDataInvalid", 0)
    ELSE IF o.data.chart.meteringDatetime = << >>
    THEN Value("good", [pods |-> << >>, chart |-> EmptyChartData])
    ELSE Value("good", [pods |-> << >>,
                        chart |-> ValidatedChartData(o.data.chart)])

\* get_metering_data, after its data request (lines 258-296).
MeteringOutcome(o) ==
    IF o.kind # "value" THEN o
    ELSE IF o.val # "good" THEN Error("ValidationError", 0)
    ELSE Value("good", [pods |-> << >>, chart |-> EmptyChartData,
                        rows |-> MeteringRows(o.data.rows)])

\* The loop of both lookups (lines 391-398, 409-416): the position in l of
\* the first POD whose id is i, PODs without id being skipped; 0 if none.
FirstWithId(l, i) ==
    LET S == { k \in 1..Len(l) :
                 PointOfDeliveryId(l[k].text).ok
                 /\ PointOfDeliveryId(l[k].text).id = i }
    IN IF S = {} THEN 0 ELSE CHOOSE k \in S : \A j \in S : k <= j

\* Faulty variant: a failed POD request falls back on the identifier itself.
SessionPodIdByStableIdFallback(o, i) ==
    LET p == PodsOutcome(o) IN
    IF p.kind # "value" THEN "fallback"
    ELSE IF FirstWithId(p.data.pods, i) = 0 THEN "fallback"
    ELSE p.data.pods[FirstWithId(p.data.pods, i)].value

\* _get_session_pod_id_by_stable_id, after its POD request ended with o:
\* every error of get_points_of_delivery is swallowed and gives None.
SessionPodIdByStableId(o, i) ==
    LET p == PodsOutcome(o) IN
    IF p.kind # "value" THEN None
    ELSE IF FirstWithId(p.data.pods, i) = 0 THEN None
    ELSE p.data.pods[FirstWithId(p.data.pods, i)].value

\* _get_pod_text_by_stable_id, likewise; << >> stands for None.
PodTextByStableId(o, i) ==
    LET p == PodsOutcome(o) IN
    IF p.kind # "value" THEN << >>
    ELSE IF FirstWithId(p.data.pods, i) = 0 THEN << >>
    ELSE p.data.pods[FirstWithId(p.data.pods, i)].text

\* What the running operation does when its current authenticated request ends
\* with outcome o: finish with a result, or go on to its next request.
NextStep(o) ==
    CASE op = "request" ->
            [done |-> TRUE, result |-> o, phase |-> phase]
      [] op = "get_pods" ->
            [done |-> TRUE, result |-> PodsOutcome(o), phase |-> phase]
      [] op = "get_chart" /\ phase = "sid" ->
            IF ~Falsy(SessionPodIdByStableId(o, pod_id))
            THEN [done |-> FALSE, result |-> Pending, phase |-> "text"]
            ELSE [done |-> TRUE, result |-> Error("PodNotFound", 0), phase |-> phase]
      [] op = "get_chart" /\ phase = "text" ->
            IF PodTextByStableId(o, pod_id) # << >>
            THEN [done |-> FALSE, result |-> Pending, phase |-> "data"]
            ELSE [done |-> TRUE, result |-> Error("PodTextNotFound", 0), phase |-> phase]
      [] op = "get_chart" /\ phase = "data" ->
            [done |-> TRUE, result |-> ChartOutcome(o), phase |-> phase]
      [] op = "get_metering" /\ phase = "sid" ->
            IF ~Falsy(SessionPodIdByStableId(o, pod_id))
            THEN [done |-> FALSE, result |-> Pending, phase |-> "data"]
            ELSE [done |-> TRUE, result |-> Error("PodNotFound", 0), phase |-> phase]
      [] OTHER ->
            [done |-> TRUE, result |-> MeteringOutcome(o), phase |-> phase]

-----------------------------------------------------------------------------
(* Initial state: SsdImsApiClient.__init__ *)

\* A dict with no key.
EmptyDict == [k \in {} |-> 0]

\* No PointOfDelivery.id has been read.
NotRead == [done |-> FALSE, ok |-> FALSE, id |-> << >>]

ReaderUnused ==
    /\ text = << >>
    /\ idOut = NotRead

\* No poll cycle has ended.
NoOutcome == [kind |-> "none", data |-> EmptyDict, cause |-> NoResult]

\* SsdImsDataCoordinator.__init__ (coordinator.py, lines 31-42) leaves the
\* registry empty. The config dict has the default interval of const.py and
\* no key for the sensor options: << >> stands for a key the dict lacks, <<b>>
\* for the value b.
DefaultConfig ==
    [point_of_delivery |-> << >>,
     scan_interval |-> 60,
     enable_supply_sensors |-> << >>,
     enable_idle_sensors |-> << >>]

\* No get_chart_data call has been made in the cycle.
NoCalls ==
    [fetched |-> << >>, sent |-> << >>, got |-> << >>, delays |-> << >>,
     auth |-> "", authAt |-> 0, other |-> ""]

\* An entry of the current version: async_migrate_entry is not called.
NotMigrating ==
    [version |-> 2, branch |-> "none", pc |-> "idle", returned |-> "none",
     updates |-> 0, original |-> << >>, runs |-> 0, rewrote |-> FALSE,
     options |-> [scan_interval |-> 60, enable_supply_sensors |-> TRUE,
                  enable_idle_sensors |-> FALSE]]

CycleIdle ==
    /\ update_interval = config.scan_interval
    /\ refreshes = 0
    /\ old_config = config
    /\ pods = << >>
    /\ cpc = "idle"
    /\ pod_ids = << >>
    /\ pod_index = 0
    /\ period_index = 0
    /\ chart_data_by_period = EmptyDict
    /\ all_pod_data = EmptyDict
    /\ outcome = NoOutcome
    /\ found = << >>
    /\ cycle = 0
    /\ log = NoCalls

CoordinatorUnused ==
    /\ config = DefaultConfig
    /\ entry = NotMigrating
    /\ CycleIdle

\* The client as constructed, with no call made.
ClientConstructed ==
    /\ authenticated = FALSE
    /\ session_token = None
    /\ username = None
    /\ password = None
    /\ pc = "idle"
    /\ op = "none"
    /\ phase = "none"
    /\ result = NoResult
    /\ args = <<None, None>>
    /\ pre = <<FALSE, None, None, None>>
    /\ nLogin = 0
    /\ nSend = 0
    /\ first = NoResp
    /\ login = NoResp
    /\ retry = NoResp
    /\ hist = "fresh"
    /\ pod_id = << >>

ProbeUnused ==
    /\ probe = NoResp
    /\ probeOut = "none"

Init ==
    /\ ClientConstructed
    /\ ProbeUnused
    /\ second = SecondIdle
    /\ backend = DefaultBackend
    /\ ReaderUnused
    /\ CoordinatorUnused

-----------------------------------------------------------------------------
(* Bookkeeping shared by the steps *)

\* A new authenticated request goes out: _make_authenticated_request passed its
\* guard and awaits the first response.
SendRequest(ph) ==
    /\ pc' = "await_response"
    /\ phase' = ph
    /\ result' = Pending
    /\ nSend' = 1
    /\ nLogin' = 0
    /\ first' = NoResp
    /\ login' = NoResp
    /\ retry' = NoResp

\* The call returns or raises o without touching the network (again).
Return(o, f, l, r) ==
    /\ pc' = "idle"
    /\ phase' = phase
    /\ result' = o
    /\ first' = f
    /\ login' = l
    /\ retry' = r
    /\ UNCHANGED <<nSend, nLogin>>

\* The current authenticated request ended with outcome o, the client's flag
\* being auth after it: the operation finishes, or issues its next request
\* (which checks the flag again, lines 159, 201).
EndRequest(o, auth, f, l, r) ==
    LET n == NextStep(o) IN
    IF n.done THEN Return(n.result, f, l, r)
    ELSE IF auth THEN SendRequest(n.phase)
    ELSE IF n.phase = "data" THEN Return(Error("NotAuthenticated", 0), f, l, r)
    ELSE Return(Error("PodTextNotFound", 0), f, l, r)

\* _reauthenticate refuses without stored credentials (lines 145-147).
NoStoredCredentials == Falsy(username) \/ Falsy(password)

\* Faulty variant: the login is attempted with the stale flag and token still set.
KeepSession == UNCHANGED <<authenticated, session_token>>

\* _reauthenticate resets the session before it logs in (lines 150-151).
ResetSession ==
    /\ authenticated' = FALSE
    /\ session_token' = None

\* Faulty variant: the guard is missing.
GuardOff == FALSE

\* `if not self._authenticated: raise Exception("Not authenticated")`
\* (lines 159, 201, 227, 305).
NotAuthenticatedGuard == ~authenticated

-----------------------------------------------------------------------------
(* Operations of the client *)

\* Faulty variant: the credentials are not stored.
AuthenticateNoStore(u, p) ==
    /\ pc = "idle"
    /\ op' = "authenticate"
    /\ UNCHANGED <<authenticated, session_token, username, password>>
    /\ args' = <<u, p>>
    /\ pre' = client
    /\ pc' = "await_login"
    /\ phase' = "none"
    /\ result' = Pending
    /\ nLogin' = 1
    /\ nSend' = 0
    /\ first' = NoResp
    /\ login' = NoResp
    /\ retry' = NoResp
    /\ UNCHANGED <<probe, probeOut, hist>>

\* authenticate(u, p) up to its await of the login response (lines 75-84).
Authenticate(u, p) ==
    /\ pc = "idle"
    /\ op' = "authenticate"
    /\ username' = u
    /\ password' = p
    /\ UNCHANGED <<authenticated, session_token>>
    /\ args' = <<u, p>>
    /\ pre' = client
    /\ pc' = "await_login"
    /\ phase' = "none"
    /\ result' = Pending
    /\ nLogin' = 1
    /\ nSend' = 0
    /\ first' = NoResp
    /\ login' = NoResp
    /\ retry' = NoResp
    /\ UNCHANGED <<probe, probeOut, hist>>

\* Faulty variant: logout forgets to clear the stored credentials.
LogoutKeepCredentials ==
    /\ pc = "idle"
    /\ op' = "logout"
    /\ authenticated' = FALSE
    /\ session_token' = None
    /\ UNCHANGED <<username, password>>
    /\ pre' = client
    /\ phase' = "none"
    /\ result' = NoResult
    /\ nLogin' = 0
    /\ nSend' = 0
    /\ first' = NoResp
    /\ login' = NoResp
    /\ retry' = NoResp
    /\ hist' = "loggedout"
    /\ UNCHANGED <<pc, args, probe, probeOut>>

\* logout() (lines 443-449).
Logout ==
    /\ pc = "idle"
    /\ op' = "logout"
    /\ authenticated' = FALSE
    /\ session_token' = None
    /\ username' = None
    /\ password' = None
    /\ pre' = client
    /\ phase' = "none"
    /\ result' = NoResult
    /\ nLogin' = 0
    /\ nSend' = 0
    /\ first' = NoResp
    /\ login' = NoResp
    /\ retry' = NoResp
    /\ hist' = "loggedout"
    /\ UNCHANGED <<pc, args, probe, probeOut>>

\* _reauthenticate() called on its own (lines 143-153), up to its login await.
Reauthenticate ==
    /\ pc = "idle"
    /\ op' = "reauthenticate"
    /\ pre' = client
    /\ phase' = "none"
    /\ nSend' = 0
    /\ first' = NoResp
    /\ login' = NoResp
    /\ retry' = NoResp
    /\ UNCHANGED <<username, password, probe, probeOut, hist>>
    /\ IF NoStoredCredentials
       THEN /\ UNCHANGED <<authenticated, session_token, args>>
            /\ pc' = "idle"
            /\ result' = Bool(FALSE)
            /\ nLogin' = 0
       ELSE /\ ResetSession
            /\ args' = <<username, password>>
            /\ pc' = "await_login"
            /\ result' = Pending
            /\ nLogin' = 1

\* Entry of an operation that needs a session: the guard `if not
\* self._authenticated: raise Exception("Not authenticated")`, then the first
\* request of the operation.
Call(o, ph) ==
    /\ pc = "idle"
    /\ op' = o
    /\ pre' = client
    /\ UNCHANGED <<authenticated, session_token, username, password, args,
                   probe, probeOut, hist>>
    /\ IF NotAuthenticatedGuard
       THEN /\ pc' = "idle"
            /\ phase' = "none"
            /\ result' = Error("NotAuthenticated", 0)
            /\ nSend' = 0
            /\ nLogin' = 0
            /\ first' = NoResp
            /\ login' = NoResp
            /\ retry' = NoResp
       ELSE SendRequest(ph)

\* _make_authenticated_request(method, url) (lines 155-165).
MakeAuthenticatedRequest == Call("request", "data")

\* get_points_of_delivery() (lines 199-205).
GetPointsOfDelivery == Call("get_pods", "data")

\* get_chart_data(pod_id, from, to) (lines 298-310): its first request is the
\* POD list of _get_session_pod_id_by_stable_id.
GetChartData(i) ==
    /\ Call("get_chart", "sid")
    /\ pod_id' = i

\* get_metering_data(pod_id, from, to) (lines 217-232).
GetMeteringData(i) ==
    /\ Call("get_metering", "sid")
    /\ pod_id' = i

-----------------------------------------------------------------------------
(* Steps of a running call: one per response *)

\* The first response of an authenticated request arrives (lines 163-190).
RecvResponse(r) ==
    /\ pc = "await_response"
    /\ UNCHANGED <<op, pre, username, password, probe, probeOut, hist>>
    /\ IF r.failed
       THEN /\ UNCHANGED <<authenticated, session_token, args>>
            /\ EndRequest(Error("ClientError", 0), authenticated, r, NoResp, NoResp)
       ELSE IF IsSessionExpired(r)
       THEN IF NoStoredCredentials
            THEN /\ UNCHANGED <<authenticated, session_token, args>>
                 /\ EndRequest(Error("ReauthFailed", 0), authenticated, r,
                               NoResp, NoResp)
            ELSE /\ ResetSession
                 /\ args' = <<username, password>>
                 /\ pc' = "await_login"
                 /\ first' = r
                 /\ nLogin' = nLogin + 1
                 /\ UNCHANGED <<phase, result, nSend, login, retry>>
       ELSE /\ UNCHANGED <<authenticated, session_token, args>>
            /\ EndRequest(FirstOutcome(r), authenticated, r, NoResp, NoResp)

\* The login response arrives (lines 85-111), for authenticate called directly
\* or through _reauthenticate; inside an authenticated request the request goes
\* on: retry after a successful login, "Re-authentication failed" otherwise
\* (lines 169-185).
RecvLogin(l) ==
    /\ pc = "await_login"
    /\ UNCHANGED <<op, pre, username, password, args, probe, probeOut>>
    /\ hist' = IF LoginAccepted(l) THEN "session" ELSE hist
    /\ authenticated' = IF LoginAccepted(l) THEN TRUE ELSE authenticated
    /\ session_token' =
          IF LoginAccepted(l) THEN ExtractSessionToken(l) ELSE session_token
    /\ IF op \in { "authenticate", "reauthenticate" }
       THEN Return(Bool(LoginAccepted(l)), first, l, retry)
       ELSE IF ReauthSucceeded(l)
       THEN /\ pc' = "await_retry"
            /\ nSend' = nSend + 1
            /\ login' = l
            /\ UNCHANGED <<phase, result, nLogin, first, retry>>
       ELSE EndRequest(Error("ReauthFailed", 0), authenticated', first, l, NoResp)

\* The response of the retried request arrives (lines 174-183).
RecvRetry(r) ==
    /\ pc = "await_retry"
    /\ UNCHANGED <<op, pre, authenticated, session_token, username, password,
                   args, probe, probeOut, hist>>
    /\ EndRequest(IF r.failed THEN Error("ClientError", 0) ELSE RetryOutcome(r),
                  authenticated, first, login, r)

\* The pod_id arguments of a direct call: a POD of the list, a POD of the
\* list whose session identifier is empty, and a POD that is not in it.
RequestedIds == { Id1, Id2, Id3 }

\* A step of the client called directly: nothing else moves.
Direct == UNCHANGED <<backend, second, reader, coordinator>>

Next ==
    \/ \E c \in Credentials :
          Authenticate(c[1], c[2]) /\ UNCHANGED pod_id /\ Direct
    \/ Logout /\ UNCHANGED pod_id /\ Direct
    \/ Reauthenticate /\ UNCHANGED pod_id /\ Direct
    \/ MakeAuthenticatedRequest /\ UNCHANGED pod_id /\ Direct
    \/ GetPointsOfDelivery /\ UNCHANGED pod_id /\ Direct
    \/ \E i \in RequestedIds : GetChartData(i) /\ Direct
    \/ \E i \in RequestedIds : GetMeteringData(i) /\ Direct
    \/ \E r \in ApiResponses : RecvResponse(r) /\ UNCHANGED pod_id /\ Direct
    \/ \E l \in LoginResponses : RecvLogin(l) /\ UNCHANGED pod_id /\ Direct
    \/ \E r \in ApiResponses : RecvRetry(r) /\ UNCHANGED pod_id /\ Direct

Spec == Init /\ [][Next]_vars

-----------------------------------------------------------------------------
(* _is_session_expired called on its own, on a response of any content type  *)

ProbeStatuses == { 200, 302, 401, 500 }

ProbePrefixes == { << >>, <<"x","-">>, <<"a","/","b",","," ">> }

ProbeCores ==
    { TextHtml, TextHtmlUpper, TextHtmlMixed, TextHtmNear, TextPlain, AppJson,
      NoHeader, <<"H","T","M","L">> }

ProbeSuffixes == { << >>, CharsetSuffix, <<"l">> }

ProbeResponses ==
    { [failed |-> FALSE, status |-> s, ctype |-> p \o c \o x, body |-> "good",
       cookie |-> None, data |-> NoData] :
        s \in ProbeStatuses, p \in ProbePrefixes, c \in ProbeCores,
        x \in ProbeSuffixes }

InitExpiry ==
    /\ ClientConstructed
    /\ probe \in ProbeResponses
    /\ probeOut = "none"
    /\ second = SecondIdle
    /\ backend = DefaultBackend
    /\ ReaderUnused
    /\ CoordinatorUnused

\* result = client._is_session_expired(response)
CheckSessionExpired ==
    /\ probeOut = "none"
    /\ probeOut' = IF IsSessionExpired(probe) THEN "expired" ELSE "valid"
    /\ UNCHANGED <<authenticated, session_token, username, password, pc, op,
                   phase, result, args, pre, nLogin, nSend, first, login, retry,
                   probe, hist, pod_id>>
    /\ Direct

NextExpiry == CheckSessionExpired

SpecExpiry == InitExpiry /\ [][NextExpiry]_vars

-----------------------------------------------------------------------------
(* PointOfDelivery.id read on its own, on a POD of any descriptor text *)

\* The longest run of uppercase letters and digits a text is built around.
MaxRun == 22

\* n characters of [A-Z0-9].
Run(n) ==
    LET pattern ==
            <<"9","9","X","X","X","1","2","3","4","5","6","0","0","0","0",
              "G","A","7","B","8","C","3","Z","5">>
    IN [i \in 1..n |-> pattern[((i - 1) % Len(pattern)) + 1]]

\* An optional character before the run, the run, and what follows it.
Texts ==
    LET leads == { << >>, <<" ">>, <<"x">> }
        tails == { << >>, <<" ","(","H","o","m","e",")">>, <<"g","9","9">>,
                   <<"\n">>, <<"-","A","B">> }
    IN { l \o Run(n) \o t : l \in leads, n \in 0..MaxRun, t \in tails }

InitId ==
    /\ ClientConstructed
    /\ ProbeUnused
    /\ second = SecondIdle
    /\ backend = DefaultBackend
    /\ text \in Texts
    /\ idOut = NotRead
    /\ CoordinatorUnused

\* try: pod_id = pod.id  except ValueError: ...
ReadId ==
    /\ ~idOut.done
    /\ idOut' = [done |-> TRUE, ok |-> PointOfDeliveryId(text).ok,
                 id |-> PointOfDeliveryId(text).id]
    /\ UNCHANGED <<authenticated, session_token, username, password, pc, op,
                   phase, result, args, pre, nLogin, nSend, first, login, retry,
                   probe, probeOut, hist, pod_id, backend, second, text, coordinator>>

SpecId == InitId /\ [][ReadId]_vars

-----------------------------------------------------------------------------
(* The poll cycle: SsdImsDataCoordinator (coordinator.py) *)

\* Faulty variant: the first two periods are registered the other way round.
TimePeriodsSwapped ==
    <<"last_2_days", "yesterday", "last_3_days", "last_7_days", "this_week",
      "this_month", "last_30_days">>

\* The keys of TIME_PERIODS_CONFIG, in the order of the dict.
TimePeriods ==
    <<"yesterday", "last_2_days", "last_3_days", "last_7_days", "this_week",
      "this_month", "last_30_days">>

\* How many of the registered periods a modelled cycle fetches per POD.
NumPeriods == 2

\* How many cycles a modelled coordinator runs.
MaxCycles == 2

\* The substrings of both authentication checks (lines 233-242, 301-310).
AuthSignatures ==
    { <<"n","o","t"," ","a","u","t","h","e","n","t","i","c","a","t","e","d">>,
      <<"a","u","t","h","e","n","t","i","c","a","t","i","o","n"," ","f","a",
        "i","l","e","d">>,
      <<"s","e","s","s","i","o","n"," ","e","x","p","i","r","e","d">>,
      <<"r","e","-","a","u","t","h","e","n","t","i","c","a","t","i","o","n",
        " ","f","a","i","l","e","d">>,
      TextHtml }

\* Faulty variant: no message is taken for an authentication error.
IsAuthErrorNone(m) == FALSE

\* any(auth_error in error_msg.lower() for auth_error in [...])
IsAuthError(m) == \E sig \in AuthSignatures : Contains(sig, Lower(m))

\* The check of the outermost handler (line 263): "Not authenticated" in
\* str(e) or "Authentication failed" in str(e).
IsAuthErrorOuter(m) ==
    \/ Contains(MessageOf("NotAuthenticated", 0, << >>), m)
    \/ Contains(<<"A","u","t","h","e","n","t","i","c","a","t","i","o","n"," ",
                  "f","a","i","l","e","d">>, m)

\* The registry is a dict: a sequence of entries [id, pod] with distinct
\* keys id, in the order of insertion.
Keys(reg) == [k \in 1..Len(reg) |-> reg[k].id]

\* The position of key i in the registry, 0 if it is no key.
KeyIndex(reg, i) ==
    IF \E k \in 1..Len(reg) : reg[k].id = i
    THEN CHOOSE k \in 1..Len(reg) : reg[k].id = i
    ELSE 0

\* self.pods[i] = pod: a key assigned again keeps its place in the dict.
Assign(reg, i, pod) ==
    IF KeyIndex(reg, i) # 0
    THEN [reg EXCEPT ![KeyIndex(reg, i)] = [id |-> i, pod |-> pod]]
    ELSE Append(reg, [id |-> i, pod |-> pod])

\* Faulty variant: the loop stops at the first POD without stable id.
RECURSIVE RegisterUntilInvalid(_, _)
RegisterUntilInvalid(reg, l) ==
    IF l = << >> \/ ~PointOfDeliveryId(Head(l).text).ok THEN reg
    ELSE RegisterUntilInvalid(
             Assign(reg, PointOfDeliveryId(Head(l).text).id, Head(l)), Tail(l))

\* Faulty variant: a POD without stable id is registered under its text.
RECURSIVE RegisterUnchecked(_, _)
RegisterUnchecked(reg, l) ==
    IF l = << >> THEN reg
    ELSE LET i == PointOfDeliveryId(Head(l).text)
         IN RegisterUnchecked(
                Assign(reg, IF i.ok THEN i.id ELSE Head(l).text, Head(l)),
                Tail(l))

\* The loop of _discover_pods (lines 279-288) over the list l: self.pods[pod.id]
\* = pod, a POD whose id raises ValueError being skipped.
RECURSIVE Register(_, _)
Register(reg, l) ==
    IF l = << >> THEN reg
    ELSE LET i == PointOfDeliveryId(Head(l).text)
         IN IF ~i.ok THEN Register(reg, Tail(l))
            ELSE Register(Assign(reg, i.id, Head(l)), Tail(l))

\* dict.get(key, default) for a value x read as << >> (no key) or <<v>>.
Get(x, default) == IF x = << >> THEN default ELSE x[1]

\* Faulty variant: the missing ids are kept in the list.
AvailableAll(ids, reg) == ids

\* pod_ids = [pod for pod in pod_ids if pod in self.pods] (lines 108-116).
Available(ids, reg) == SelectSeq(ids, LAMBDA i : KeyIndex(reg, i) # 0)

\* Faulty variant: every category is emitted whatever the options.
EnabledSensorTypesAll(cfg) ==
    <<"actual_consumption", "actual_supply", "idle_consumption", "idle_supply">>

\* enabled_sensor_types of _aggregate_data (lines 322-339): the options are
\* read with config.get(key, default), the defaults being those of const.py
\* (lines 23-24).
EnabledSensorTypes(cfg) ==
    <<"actual_consumption">>
    \o (IF Get(cfg.enable_supply_sensors, TRUE)
        THEN <<"actual_supply">> ELSE << >>)
    \o (IF Get(cfg.enable_idle_sensors, FALSE)
        THEN <<"idle_consumption", "idle_supply">> ELSE << >>)

\* chart_data.sum_<type> or 0.0 (lines 347-365).
SumOf(cd, t) ==
    CASE t = "actual_consumption" -> cd.sum_actual_consumption
      [] t = "actual_supply" -> cd.sum_actual_supply
      [] t = "idle_consumption" -> cd.sum_idle_consumption
      [] OTHER -> cd.sum_idle_supply

\* _aggregate_data (lines 317-381): one entry per key of the dict it is given.
\* Every value of that dict is a ChartData object, which is truthy and has
\* the sums, so the zero fallback of line 375 is never taken.
AggregateData(byPeriod, cfg) ==
    [p \in DOMAIN byPeriod |->
        [t \in { EnabledSensorTypes(cfg)[k] :
                   k \in 1..Len(EnabledSensorTypes(cfg)) } |->
            SumOf(byPeriod[p], t)]]

\* pod_data of one POD (lines 204-213).
PodData(pod, byPeriod, cfg) ==
    [session_pod_id |-> pod.value,
     pod_text |-> pod.text,
     aggregated_data |-> AggregateData(byPeriod, cfg),
     chart_data |-> byPeriod]

\* Faulty variant: the error passes on to the handler of the per-POD try.
PeriodHandlerNoCatch(o) == "raise"

\* The handler of the per-period try (lines 172-177): every Exception is
\* logged and the loop goes on with the next period.
PeriodHandler(o) == "continue"

\* Every variable of the client and of its running call.
caller ==
    <<authenticated, session_token, username, password, pc, op, phase, result,
      args, pre, nLogin, nSend, first, login, retry, probe, probeOut, hist,
      pod_id>>

\* The data an entry may hold, as the config flow writes it (config_flow.py,
\* lines 200-208): pod_ids configured or not, present in the portal or not,
\* and the sensor options.
Configs ==
    { [point_of_delivery |-> << >>, scan_interval |-> 60,
       enable_supply_sensors |-> TRUE, enable_idle_sensors |-> FALSE],
      [point_of_delivery |-> <<Id1, Id2>>, scan_interval |-> 60,
       enable_supply_sensors |-> TRUE, enable_idle_sensors |-> TRUE],
      [point_of_delivery |-> <<Id3, Id1>>, scan_interval |-> 60,
       enable_supply_sensors |-> FALSE, enable_idle_sensors |-> FALSE],
      [point_of_delivery |-> <<Id2>>, scan_interval |-> 120,
       enable_supply_sensors |-> FALSE, enable_idle_sensors |-> TRUE] }

\* The options of the entry data d.
OptionsOf(d) ==
    [scan_interval |-> d.scan_interval,
     enable_supply_sensors |-> d.enable_supply_sensors,
     enable_idle_sensors |-> d.enable_idle_sensors]

\* The config dict async_setup_entry builds of the entry data d and hands to
\* the coordinator (__init__.py, lines 39-49): username, password,
\* scan_interval, point_of_delivery and pod_name_mapping, and no sensor
\* option.
SetupConfig(d) ==
    [point_of_delivery |-> d.point_of_delivery,
     scan_interval |-> d.scan_interval,
     enable_supply_sensors |-> << >>,
     enable_idle_sensors |-> << >>]

\* What the portal may hold.
Backends ==
    { [pods |-> <<PodBad, Pod1, Pod2>>, chart |-> RawChartFull],
      [pods |-> <<Pod1>>, chart |-> RawChartNoTimestamps],
      [pods |-> << >>, chart |-> RawChartFull],
      [pods |-> <<PodBad, PodNoValue>>, chart |-> RawChartFull],
      [pods |-> <<Pod1, PodDup>>, chart |-> RawChartFull] }

\* The responses of the portal during a cycle.
CycleResponses ==
    { [failed |-> FALSE, status |-> s, ctype |-> AppJson, body |-> "good",
       cookie |-> None, data |-> backend] : s \in { 200, 500 } }
    \cup { [failed |-> FALSE, status |-> 200, ctype |-> TextHtml \o CharsetSuffix,
            body |-> "garbage", cookie |-> None, data |-> NoData],
           [failed |-> FALSE, status |-> 200, ctype |-> AppJson,
            body |-> "badschema", cookie |-> None, data |-> NoData],
           TransportFailure }

AcceptedLogin ==
    [failed |-> FALSE, status |-> 200, ctype |-> AppJson, body |-> "good",
     cookie |-> "abc123", data |-> NoData]

CycleLoginResponses ==
    { AcceptedLogin,
      [failed |-> FALSE, status |-> 401, ctype |-> AppJson, body |-> "garbage",
       cookie |-> None, data |-> NoData] }

\* async_setup_entry (__init__.py, lines 21-60): the coordinator is created
\* around a client whose authenticate has just returned True.
InitCycle ==
    /\ authenticated = TRUE
    /\ session_token = "abc123"
    /\ username = "alice"
    /\ password = "pw1"
    /\ pc = "idle"
    /\ op = "authenticate"
    /\ phase = "none"
    /\ result = Bool(TRUE)
    /\ args = <<"alice", "pw1">>
    /\ pre = <<FALSE, None, None, None>>
    /\ nLogin = 1
    /\ nSend = 0
    /\ first = NoResp
    /\ login = AcceptedLogin
    /\ retry = NoResp
    /\ hist = "session"
    /\ pod_id = << >>
    /\ ProbeUnused
    /\ second = SecondIdle
    /\ ReaderUnused
    /\ backend \in Backends
    /\ \E d \in Configs :
          /\ config = SetupConfig(d)
          /\ entry = [NotMigrating EXCEPT !.options = OptionsOf(d)]
    /\ CycleIdle

Running == [kind |-> "running", data |-> EmptyDict, cause |-> NoResult]

\* The cycle raises: ConfigEntryAuthFailed (k = "auth_failed") or
\* UpdateFailed (k = "update_failed"), caused by the error e.
Raise(k, e) ==
    /\ cpc' = "idle"
    /\ outcome' = [kind |-> k, data |-> EmptyDict, cause |-> e]
    /\ UNCHANGED caller

\* Faulty variant: an error that is not an authentication error escapes as
\* it is.
OuterHandlerReraises(e) ==
    Raise(IF IsAuthErrorOuter(e.msg) THEN "auth_failed" ELSE e.kind, e)

\* The outermost handlers (lines 258-265) for an error e that reaches them.
OuterHandler(e) ==
    Raise(IF IsAuthErrorOuter(e.msg) THEN "auth_failed" ELSE "update_failed", e)

\* The first index from k on of ids whose id the registry reg holds, past the
\* end of ids if there is none: if not pod: continue (lines 130-136).
RECURSIVE NextPresent(_, _, _)
NextPresent(k, ids, reg) ==
    IF k > Len(ids) \/ KeyIndex(reg, ids[k]) # 0 THEN k
    ELSE NextPresent(k + 1, ids, reg)

\* Faulty variant: the dict of the POD before is kept.
NewPeriodDictKept == chart_data_by_period

\* chart_data_by_period = {} (line 139).
NewPeriodDict == EmptyDict

\* The loop over the PODs goes on from index j of ids with the result dict d
\* (lines 127-139): it returns d after the last POD (line 256), and otherwise
\* fetches the first period of the next POD the registry holds, which no
\* delay precedes.
EnterPod(j, ids, d) ==
  LET k == NextPresent(j, ids, pods') IN
    /\ pod_ids' = ids
    /\ all_pod_data' = d
    /\ chart_data_by_period' = NewPeriodDict
    /\ IF k > Len(ids)
       THEN /\ cpc' = "idle"
            /\ outcome' = [kind |-> "done", data |-> d, cause |-> NoResult]
            /\ pod_index' = 0
            /\ period_index' = 0
            /\ UNCHANGED caller
       ELSE /\ cpc' = "fetch"
            /\ outcome' = Running
            /\ pod_index' = k
            /\ period_index' = 1
            /\ GetChartData(ids[k])

\* _async_update_data up to its first await (lines 84-127): discovery when no
\* pod_id is configured or the registry is empty, the first fetch otherwise.
StartCycle ==
    /\ cpc = "idle"
    /\ pc = "idle"
    /\ cycle < MaxCycles
    /\ cycle' = cycle + 1
    /\ log' = NoCalls
    /\ UNCHANGED <<update_interval, refreshes, old_config, entry, config, pods,
                   backend, second, reader>>
    /\ IF config.point_of_delivery = << >> \/ pods = << >>
       THEN /\ cpc' = "discover"
            /\ UNCHANGED found
            /\ outcome' = Running
            /\ pod_ids' = config.point_of_delivery
            /\ pod_index' = 0
            /\ period_index' = 0
            /\ chart_data_by_period' = EmptyDict
            /\ all_pod_data' = EmptyDict
            /\ GetPointsOfDelivery
            /\ UNCHANGED pod_id
       ELSE /\ UNCHANGED found
            /\ EnterPod(1, Available(config.point_of_delivery, pods),
                        EmptyDict)

\* get_points_of_delivery has returned to _discover_pods (lines 270-315), and
\* _async_update_data goes on to its next await (lines 95-127).
DiscoverDone ==
    /\ cpc = "discover"
    /\ pc = "idle"
    /\ UNCHANGED <<update_interval, refreshes, old_config, entry, config,
                   backend, second, reader, cycle, log>>
    /\ LET e == IF result.kind = "value" /\ result.data.pods = << >>
                THEN Error("NoPodsFound", 0) ELSE result
       IN IF IsError(e)
          THEN /\ IF IsAuthError(e.msg) THEN Raise("auth_failed", e)
                  ELSE OuterHandler(e)
               /\ UNCHANGED <<pods, pod_ids, pod_index, period_index,
                              chart_data_by_period, all_pod_data, found>>
          ELSE /\ pods' = Register(<< >>, e.data.pods)
               /\ found' = e.data.pods
               /\ EnterPod(1,
                           IF config.point_of_delivery = << >>
                           THEN Keys(pods')
                           ELSE Available(config.point_of_delivery, pods'),
                           EmptyDict)

\* The log after get_chart_data(i, p) ended with o: the calls made, the POD
\* of the upstream list each chart request that was sent was built from
\* (api_client.py, lines 319-328), the calls that returned data, the delays
\* taken, the kind of the first error whose message holds an authentication
\* signature, which call raised it, and the kind of the first error whose
\* message holds none.
Logged(l, i, p, o) ==
    [fetched |-> Append(l.fetched, <<i, p>>),
     sent |-> IF phase = "data"
              THEN Append(l.sent, [id |-> i,
                                   pod |-> backend.pods[FirstWithId(backend.pods, i)]])
              ELSE l.sent,
     got |-> IF o.kind = "value" THEN Append(l.got, <<i, p>>) ELSE l.got,
     delays |-> l.delays,
     auth |-> IF l.auth = "" /\ IsError(o) /\ IsAuthError(o.msg)
              THEN o.kind ELSE l.auth,
     authAt |-> IF l.auth = "" /\ IsError(o) /\ IsAuthError(o.msg)
                THEN Len(l.fetched) + 1 ELSE l.authAt,
     other |-> IF l.other = "" /\ IsError(o) /\ ~IsAuthError(o.msg)
               THEN o.kind ELSE l.other]

\* The POD of the registry the loop is at: pod = self.pods.get(pod_id).
CurrentPod == pods[KeyIndex(pods, pod_ids[pod_index])].pod

\* Faulty variant: a delay follows the last POD as well.
FinishPodAlwaysSleeps(byPeriod) ==
    /\ cpc' = "sleep_pod"
    /\ all_pod_data' =
          (pod_ids[pod_index] :> PodData(CurrentPod, byPeriod, config))
          @@ all_pod_data
    /\ chart_data_by_period' = byPeriod
    /\ UNCHANGED <<pod_ids, pod_index, period_index, outcome, caller>>

\* The period loop is over for the current POD (lines 179-224): its pod_data
\* is stored and, unless it was the last POD, a delay precedes the next one.
FinishPod(byPeriod) ==
    LET d == (pod_ids[pod_index] :> PodData(CurrentPod, byPeriod, config))
             @@ all_pod_data
    IN IF pod_index < Len(pod_ids)
       THEN /\ cpc' = "sleep_pod"
            /\ all_pod_data' = d
            /\ chart_data_by_period' = byPeriod
            /\ UNCHANGED <<pod_ids, pod_index, period_index, outcome, caller>>
       ELSE EnterPod(pod_index + 1, pod_ids, d)

\* get_chart_data has returned or raised (lines 168-177), and the cycle goes
\* on to its next await: the delay before the next period or the next POD,
\* or its end.
FetchDone ==
    /\ cpc = "fetch"
    /\ pc = "idle"
    /\ UNCHANGED <<update_interval, refreshes, old_config, entry, config, pods,
                   backend, second, reader, cycle, found>>
    /\ log' = Logged(log, pod_ids[pod_index], TimePeriods[period_index], result)
    /\ LET byPeriod ==
               IF result.kind = "value"
               THEN (TimePeriods[period_index] :> result.data.chart)
                    @@ chart_data_by_period
               ELSE chart_data_by_period
           handled == IF IsError(result) THEN PeriodHandler(result)
                      ELSE "continue"
       IN CASE handled = "continue" /\ period_index < NumPeriods ->
                 /\ cpc' = "sleep_period"
                 /\ chart_data_by_period' = byPeriod
                 /\ UNCHANGED <<pod_ids, pod_index, period_index, all_pod_data,
                                outcome, caller>>
            [] handled = "continue" /\ period_index >= NumPeriods ->
                 FinishPod(byPeriod)
            [] OTHER ->
                 \* the handler of the per-POD try (lines 226-249)
                 IF IsAuthError(result.msg)
                 THEN /\ Raise("auth_failed", result)
                      /\ UNCHANGED <<pod_ids, pod_index, period_index,
                                     chart_data_by_period, all_pod_data>>
                 ELSE EnterPod(pod_index + 1, pod_ids, all_pod_data)

\* The delay before a period other than the first is over (lines 158-170).
WakePeriod ==
    /\ cpc = "sleep_period"
    /\ cpc' = "fetch"
    /\ period_index' = period_index + 1
    /\ GetChartData(pod_ids[pod_index])
    /\ log' = [log EXCEPT !.delays = Append(@, <<"period", Len(log.fetched)>>)]
    /\ UNCHANGED <<update_interval, refreshes, old_config, entry, config, pods,
                   backend, second, reader, cycle, found, pod_ids,
                   pod_index, chart_data_by_period, all_pod_data, outcome>>

\* The delay between two PODs is over (lines 217-224, 127-139).
WakePod ==
    /\ cpc = "sleep_pod"
    /\ log' = [log EXCEPT !.delays = Append(@, <<"pod", Len(log.fetched)>>)]
    /\ UNCHANGED <<update_interval, refreshes, old_config, entry, config, pods,
                   backend, second, reader, cycle, found>>
    /\ EnterPod(pod_index + 1, pod_ids, all_pod_data)

\* The portal opens a new session between two cycles: every session
\* identifier of the POD list changes, the texts and the data stay.
Rotate ==
    /\ cpc = "idle"
    /\ pc = "idle"
    /\ cycle \in 1..(MaxCycles - 1)
    /\ backend \in Backends
    /\ backend' =
          [backend EXCEPT !.pods =
              [k \in 1..Len(backend.pods) |->
                  [text |-> backend.pods[k].text,
                   value |-> IF backend.pods[k].value = "" THEN ""
                             ELSE backend.pods[k].value \o "r"]]]
    /\ UNCHANGED <<caller, reader, second, coordinator>>

\* How often update_config may request a refresh.
MaxRefreshes == 2

\* Faulty variant: a change of the interval counts as a change of the sensors.
SensorConfigChangedOrInterval(old, new) ==
    \/ old.enable_supply_sensors # new.enable_supply_sensors
    \/ old.enable_idle_sensors # new.enable_idle_sensors
    \/ old.scan_interval # new.scan_interval

\* sensor_config_changed (lines 50-53): old_config.get(key) != new_config.get(key)
\* for one of the two sensor options.
SensorConfigChanged(old, new) ==
    \/ old.enable_supply_sensors # new.enable_supply_sensors
    \/ old.enable_idle_sensors # new.enable_idle_sensors

\* update_config(new_config) (lines 44-75), called by the options flow with
\* the entry data in which the options are o, after it has stored them in the
\* entry (config_flow.py, lines 252-275); the flow is handled while no cycle
\* runs. Every key of new_config replaces that of self.config.
UpdateConfig(o) ==
    /\ cpc = "idle"
    /\ pc = "idle"
    /\ refreshes < MaxRefreshes
    /\ entry' = [entry EXCEPT !.options = o]
    /\ LET new_config ==
               [point_of_delivery |-> config.point_of_delivery,
                scan_interval |-> o.scan_interval,
                enable_supply_sensors |-> <<o.enable_supply_sensors>>,
                enable_idle_sensors |-> <<o.enable_idle_sensors>>]
       IN /\ old_config' = config
          /\ config' = new_config
          /\ update_interval' =
                IF config.scan_interval # new_config.scan_interval
                THEN new_config.scan_interval ELSE update_interval
          /\ refreshes' =
                IF SensorConfigChanged(config, new_config)
                THEN refreshes + 1 ELSE refreshes
    /\ UNCHANGED <<caller, backend, second, reader, pods, cpc, pod_ids,
                   pod_index,
                   period_index, chart_data_by_period, all_pod_data, outcome,
                   found, cycle, log>>

\* A step of the client inside a cycle: the coordinator awaits it.
Awaited == UNCHANGED <<pod_id, backend, second, reader, coordinator>>

\* Between two cycles the options flow may be submitted with the options the
\* entry stores.
NextCycle ==
    \/ StartCycle
    \/ DiscoverDone
    \/ FetchDone
    \/ WakePeriod
    \/ WakePod
    \/ Rotate
    \/ cycle \in 1..(MaxCycles - 1) /\ refreshes = 0 /\ UpdateConfig(entry.options)
    \/ \E r \in CycleResponses : RecvResponse(r) /\ Awaited
    \/ \E l \in CycleLoginResponses : RecvLogin(l) /\ Awaited
    \/ \E r \in CycleResponses : RecvRetry(r) /\ Awaited

SpecCycle == InitCycle /\ [][NextCycle]_vars

\* The poll cycles alone, one after the other.
NextCycleFair ==
    \/ StartCycle
    \/ DiscoverDone
    \/ FetchDone
    \/ WakePeriod
    \/ WakePod
    \/ \E r \in CycleResponses : RecvResponse(r) /\ Awaited
    \/ \E l \in CycleLoginResponses : RecvLogin(l) /\ Awaited
    \/ \E r \in CycleResponses : RecvRetry(r) /\ Awaited

\* The poll cycles when the event loop resumes the cycle whose await has
\* returned and whose delay has ended, every request that is not answered
\* times out (api_client.py, API_TIMEOUT, lines 44-45) and every login is
\* answered.
SpecCycleFair ==
    /\ InitCycle
    /\ [][NextCycleFair]_vars
    /\ WF_vars(DiscoverDone \/ FetchDone \/ WakePeriod \/ WakePod)
    /\ WF_vars((RecvResponse(TransportFailure) \/ RecvRetry(TransportFailure))
                  /\ Awaited)
    /\ WF_vars(\E l \in CycleLoginResponses : RecvLogin(l) /\ Awaited)

-----------------------------------------------------------------------------
(* Two requests on one client: a second _make_authenticated_request whose
   awaits interleave with those of the first (api_client.py, lines 143-197) *)

\* How many second requests are made.
MaxSecondCalls == 2

\* The second request ends with o.
SecondEnds(o) == second' = [second EXCEPT !.pc = "idle", !.result = o]

\* The second request is called: the guard, then its request (lines 155-165).
SecondRequest ==
    /\ second.pc = "idle"
    /\ second.calls < MaxSecondCalls
    /\ second' =
          IF NotAuthenticatedGuard
          THEN [pc |-> "idle", result |-> Error("NotAuthenticated", 0),
                calls |-> second.calls + 1]
          ELSE [pc |-> "await_response", result |-> Pending,
                calls |-> second.calls + 1]
    /\ UNCHANGED <<caller, backend, reader, coordinator>>

\* The first response of the second request arrives (lines 163-190): on an
\* expired session _reauthenticate resets the session and logs in.
SecondRecvResponse(r) ==
    /\ second.pc = "await_response"
    /\ IF r.failed
       THEN /\ SecondEnds(Error("ClientError", 0))
            /\ UNCHANGED <<authenticated, session_token>>
       ELSE IF IsSessionExpired(r)
       THEN IF NoStoredCredentials
            THEN /\ SecondEnds(Error("ReauthFailed", 0))
                 /\ UNCHANGED <<authenticated, session_token>>
            ELSE /\ ResetSession
                 /\ second' = [second EXCEPT !.pc = "await_login"]
       ELSE /\ SecondEnds(FirstOutcome(r))
            /\ UNCHANGED <<authenticated, session_token>>
    /\ UNCHANGED <<username, password, pc, op, phase, result, args, pre, nLogin,
                   nSend, first, login, retry, probe, probeOut, hist, pod_id,
                   backend, reader, coordinator>>

\* The login response of the second request arrives (lines 85-111, 169-185);
\* authenticate has stored the stored credentials again (lines 77-78).
SecondRecvLogin(l) ==
    /\ second.pc = "await_login"
    /\ hist' = IF LoginAccepted(l) THEN "session" ELSE hist
    /\ authenticated' = IF LoginAccepted(l) THEN TRUE ELSE authenticated
    /\ session_token' =
          IF LoginAccepted(l) THEN ExtractSessionToken(l) ELSE session_token
    /\ IF ReauthSucceeded(l)
       THEN second' = [second EXCEPT !.pc = "await_retry"]
       ELSE SecondEnds(Error("ReauthFailed", 0))
    /\ UNCHANGED <<username, password, pc, op, phase, result, args, pre, nLogin,
                   nSend, first, login, retry, probe, probeOut, pod_id,
                   backend, reader, coordinator>>

\* The response of the retried second request arrives (lines 174-183).
SecondRecvRetry(r) ==
    /\ second.pc = "await_retry"
    /\ SecondEnds(IF r.failed THEN Error("ClientError", 0) ELSE RetryOutcome(r))
    /\ UNCHANGED <<caller, backend, reader, coordinator>>

\* A client that is authenticated once with credentials the portal accepts,
\* and then used for requests whose sessions may have expired: every request
\* is answered with JSON, with the login page or not at all, every login is
\* accepted.
NextInterleave ==
    \/ /\ hist = "fresh"
       /\ Authenticate("alice", "pw1") /\ UNCHANGED pod_id /\ Direct
    \/ /\ hist = "session"
       /\ MakeAuthenticatedRequest /\ UNCHANGED pod_id /\ Direct
    \/ \E r \in CycleResponses : RecvResponse(r) /\ UNCHANGED pod_id /\ Direct
    \/ RecvLogin(AcceptedLogin) /\ UNCHANGED pod_id /\ Direct
    \/ \E r \in CycleResponses : RecvRetry(r) /\ UNCHANGED pod_id /\ Direct
    \/ hist = "session" /\ SecondRequest
    \/ \E r \in CycleResponses : SecondRecvResponse(r)
    \/ SecondRecvLogin(AcceptedLogin)
    \/ \E r \in CycleResponses : SecondRecvRetry(r)

SpecInterleave == Init /\ [][NextInterleave]_vars

\* The options flow submitted over and over, with any interval and any sensor
\* options (config_flow.py, lines 279-304).
NextConfig ==
    \E i \in { 60, 120 } : \E s \in BOOLEAN : \E b \in BOOLEAN :
        UpdateConfig([scan_interval |-> i, enable_supply_sensors |-> s,
                      enable_idle_sensors |-> b])

SpecConfig == InitCycle /\ [][NextConfig]_vars

-----------------------------------------------------------------------------
(* Properties of the session client *)

SessionOps == { "request", "get_pods", "get_chart", "get_metering" }

\* A completed call of _make_authenticated_request itself.
RequestDone == op = "request" /\ pc = "idle"

\* The current request saw an expiry signal in its first response.
FirstExpired == first # NoResp /\ ~first.failed /\ IsSessionExpired(first)

\* C1: in every authenticated request, whatever the backend answers, at most
\* one login is attempted and the original request is sent at most twice, the
\* second send only after a login that was accepted.
C1_AtMostOneReauthOneRetry ==
    op \in SessionOps =>
        /\ nLogin <= 1
        /\ nSend <= 2
        /\ (nSend = 2 => nLogin = 1 /\ LoginAccepted(login))
        /\ (pc = "await_retry" => nSend = 2)
        /\ (retry # NoResp => nSend = 2)

C1_Witness ==
    /\ RequestDone
    /\ nSend = 2
    /\ nLogin = 1
    /\ result.kind = "value"

\* The case of C2: first response expired, login accepted, and the response to
\* the retried request carries an HTML content type again.
SecondExpiry ==
    /\ RequestDone
    /\ FirstExpired
    /\ LoginAccepted(login)
    /\ retry # NoResp
    /\ ~retry.failed
    /\ IsSessionExpired(retry)

\* C2 as claimed: a second expiry signal after a successful re-authentication
\* makes the call fail with ApiError, without a second login.
C2_SecondExpiryIsApiError ==
    SecondExpiry => IsApiError(result) /\ nLogin = 1

\* C2 as amended: in that case the call fails without returning a value and
\* without a second login; the error is ApiError with the retry's status when
\* that status is not 200, and the JSON decoder's content-type error when it
\* is 200.
C2_SecondExpiryFails ==
    SecondExpiry =>
        /\ IsError(result)
        /\ nLogin = 1
        /\ nSend = 2
        /\ (retry.status # 200 =>
                result = Error("ApiErrorAfterReauth", retry.status))
        /\ (retry.status = 200 => result.kind = "ContentTypeError")

C2_Witness == SecondExpiry /\ retry.status = 200

\* C3: when the first response signals expiry and the login with the stored
\* credentials is rejected, the call fails with ReauthFailed, the original
\* request is not sent again, and the client is left unauthenticated with no
\* token.
C3_ReauthFailureLeavesUnauthenticated ==
    (RequestDone /\ FirstExpired /\ nLogin = 1 /\ ~LoginAccepted(login)) =>
        /\ result = Error("ReauthFailed", 0)
        /\ nSend = 1
        /\ retry = NoResp
        /\ ~authenticated
        /\ session_token = None

C3_Witness ==
    /\ RequestDone
    /\ FirstExpired
    /\ nLogin = 1
    /\ ~LoginAccepted(login)
    /\ pre[1]
    /\ pre[2] = "abc123"

\* C4: on a client with no successful login since construction or since the
\* last logout, the authenticated request, get_points_of_delivery,
\* get_chart_data and get_metering_data fail with NotAuthenticated and send
\* nothing.
C4_NotAuthenticatedWithoutSession ==
    (op \in SessionOps /\ hist # "session") =>
        /\ pc = "idle"
        /\ result = Error("NotAuthenticated", 0)
        /\ nSend = 0
        /\ nLogin = 0
        /\ first = NoResp

C4_Witness ==
    /\ op = "get_chart"
    /\ hist = "loggedout"
    /\ result = Error("NotAuthenticated", 0)

\* What the spec calls a valid login response: 200 with a JSON body that fits
\* the profile schema.
ValidProfileResponse(l) ==
    /\ ~l.failed
    /\ l.status = 200
    /\ l.ctype = AppJson
    /\ l.body = "good"

\* C5: authenticate never raises; it returns true exactly for a 200 response
\* with a valid profile body, and false for a non-200 response, a body that
\* fails validation, and a transport failure.
C5_AuthenticateReturnsBoolean ==
    (op = "authenticate" /\ pc = "idle") =>
        /\ result.kind = "bool"
        /\ (result = Bool(TRUE) <=> ValidProfileResponse(login))
        /\ (login.failed => result = Bool(FALSE))
        /\ (login.status # 200 => result = Bool(FALSE))
        /\ (login.body # "good" => result = Bool(FALSE))

C5_Witness ==
    /\ op = "authenticate"
    /\ pc = "idle"
    /\ login.status = 200
    /\ login.body = "badschema"
    /\ result = Bool(FALSE)

\* C6 as claimed: after any authenticate that returns false the client is not
\* authenticated, whatever its state was before.
C6_FailedAuthenticateUnauthenticated ==
    (op = "authenticate" /\ pc = "idle" /\ result = Bool(FALSE)) => ~authenticated

\* C7: after authenticate returns true the client is authenticated, holds the
\* credentials it was called with, and its token is the value of the
\* SsdAccessToken cookie of that login response.
C7_SuccessfulAuthenticateState ==
    (op = "authenticate" /\ pc = "idle" /\ result = Bool(TRUE)) =>
        /\ authenticated
        /\ username = args[1]
        /\ password = args[2]
        /\ session_token = login.cookie

C7_Witness ==
    /\ op = "authenticate"
    /\ pc = "idle"
    /\ result = Bool(TRUE)
    /\ login.cookie = "abc123"
    /\ session_token = "abc123"
    /\ username = "bob"
    /\ pre[3] = "alice"

\* C8: logout clears flag, token and credentials and sends nothing; a
\* re-authentication attempted on a client without stored credentials (as
\* after logout) returns false and sends no login request.
C8_LogoutClearsEverything ==
    /\ op = "logout" =>
          /\ ~authenticated
          /\ session_token = None
          /\ username = None
          /\ password = None
          /\ pc = "idle"
          /\ nSend = 0
          /\ nLogin = 0
    /\ (op = "reauthenticate" /\ hist = "loggedout" /\ pre[3] = None) =>
          /\ pc = "idle"
          /\ result = Bool(FALSE)
          /\ nLogin = 0
          /\ ~authenticated

C8_Witness ==
    /\ op = "reauthenticate"
    /\ hist = "loggedout"
    /\ pre[3] = None
    /\ result = Bool(FALSE)

\* C9: a first response that does not signal expiry and whose status is not
\* 200 makes the request fail with ApiError carrying that status, with no
\* login attempted and flag, token and credentials as they were at the call.
C9_NonExpiredNon200IsApiError ==
    (RequestDone /\ first # NoResp /\ ~first.failed
        /\ ~IsSessionExpired(first) /\ first.status # 200) =>
        /\ result = Error("ApiError", first.status)
        /\ nLogin = 0
        /\ nSend = 1
        /\ client = pre

C9_Witness ==
    /\ RequestDone
    /\ first # NoResp
    /\ ~first.failed
    /\ first.status = 401
    /\ first.ctype = AppJson
    /\ first.body = "good"

\* A content type contains text/html in some mix of upper and lower case.
HasTextHtmlAnyCase(ct) ==
    \E i \in 1..(Len(ct) - Len(TextHtml) + 1) :
        \A k \in 1..Len(TextHtml) :
            ct[i + k - 1] \in { TextHtml[k], TextHtmlUpper[k] }

\* C10: a response is treated as expired exactly when its content type
\* contains text/html, case-insensitively, whatever its status; a response
\* with a JSON content type is never treated as expired.
C10_ExpiryIsContentTypeOnly ==
    probeOut # "none" =>
        /\ (probeOut = "expired" <=> HasTextHtmlAnyCase(probe.ctype))
        /\ (probe.ctype \in { AppJson, AppJson \o CharsetSuffix } =>
                probeOut = "valid")

C10_Witness ==
    /\ probeOut = "expired"
    /\ probe.status = 500
    /\ probe.ctype = TextHtmlMixed \o CharsetSuffix

-----------------------------------------------------------------------------
(* Properties of the stable POD id *)

\* The first k characters of t exist and are uppercase letters or digits.
StartsWithRun(t, k) ==
    /\ k <= Len(t)
    /\ \A j \in 1..k : t[j] \in UpperAlnum

\* The lengths from 16 to 20 at which t starts with such a run.
IdLengths(t) == { k \in 16..20 : StartsWithRun(t, k) }

\* C17: a text that starts with 16 to 20 uppercase letters or digits gives
\* exactly that leading run, of at most 20 characters; a text that is 16 to
\* 20 such characters on the whole is returned unchanged; every other text
\* fails with InvalidPodIdentifier.
C17_StableIdIsLeadingRun ==
    idOut.done =>
        /\ IdLengths(text) # {} =>
              /\ idOut.ok
              /\ Len(idOut.id) \in IdLengths(text)
              /\ \A k \in IdLengths(text) : k <= Len(idOut.id)
              /\ idOut.id = SubSeq(text, 1, Len(idOut.id))
        /\ (Len(text) \in 16..20 /\ StartsWithRun(text, Len(text))) =>
              idOut.ok /\ idOut.id = text
        /\ IdLengths(text) = {} => ~idOut.ok

C17_Witness ==
    /\ idOut.done
    /\ idOut.ok
    /\ Len(text) > 20
    /\ StartsWithRun(text, 21)
    /\ Len(idOut.id) = 20

-----------------------------------------------------------------------------
(* Properties of the poll cycle *)

\* A cycle has run and is over.
CycleEnded == cpc = "idle" /\ cycle > 0

\* The cycle is past discovery: it is fetching, or has returned a result.
PastDiscovery ==
    cpc \in { "fetch", "sleep_period", "sleep_pod" } \/ outcome.kind = "done"

\* Every (POD, period) call of a cycle over the PODs ids, in order.
RECURSIVE AllFetches(_)
AllFetches(ids) ==
    IF ids = << >> THEN << >>
    ELSE [j \in 1..NumPeriods |-> <<Head(ids), TimePeriods[j]>>]
         \o AllFetches(Tail(ids))

\* The elements of a sequence.
Elements(q) == { q[k] : k \in 1..Len(q) }

\* C11 as claimed: once a chart fetch has failed with an error whose message
\* holds an authentication signature, the cycle is over in AuthFailed: it has
\* fetched no further period or POD and returns no result.
C11_AuthErrorAbortsCycle ==
    log.auth # "" =>
        /\ cpc = "idle"
        /\ outcome.kind = "auth_failed"
        /\ outcome.data = EmptyDict
        /\ Len(log.fetched) = log.authAt

\* C12: a chart fetch that fails with an error whose message holds no
\* authentication signature does not abort the cycle: the cycle goes on, and
\* when it is over every POD of the active list has been fetched for every
\* period and the cycle is Done with a result that holds each of them.
C12_NonAuthErrorDoesNotAbort ==
    (log.other # "" /\ log.auth = "") =>
        /\ outcome.kind \in { "running", "done" }
        /\ cpc = "idle" =>
              /\ outcome.kind = "done"
              /\ log.fetched = AllFetches(pod_ids)
              /\ DOMAIN outcome.data = Elements(pod_ids)

C12_Witness ==
    /\ CycleEnded
    /\ log.other = "ApiError"
    /\ log.auth = ""
    /\ log.authAt = 0
    /\ Len(pod_ids) = 2
    /\ log.fetched[1] = <<pod_ids[1], "yesterday">>
    /\ outcome.kind = "done"
    /\ "yesterday" \notin DOMAIN outcome.data[pod_ids[1]].chart_data

\* The categories the options enable, as the claims name them.
EnabledCategories ==
    { "actual_consumption" }
    \cup (IF config.enable_supply_sensors # <<FALSE>>
          THEN { "actual_supply" } ELSE {})
    \cup (IF config.enable_idle_sensors = <<TRUE>>
          THEN { "idle_consumption", "idle_supply" } ELSE {})

\* C13 as claimed: after every cycle that is Done, for every POD of the
\* output, every fetched period and every enabled category the aggregated
\* data holds a number, a period without chart data holding zeros.
C13_EveryPeriodHasValues ==
    outcome.kind = "done" =>
        \A i \in DOMAIN outcome.data :
            \A j \in 1..NumPeriods :
                /\ TimePeriods[j] \in DOMAIN outcome.data[i].aggregated_data
                /\ \A t \in EnabledCategories :
                      /\ t \in DOMAIN outcome.data[i].aggregated_data[TimePeriods[j]]
                      /\ outcome.data[i].aggregated_data[TimePeriods[j]][t] \in Nat
                /\ TimePeriods[j] \notin DOMAIN outcome.data[i].chart_data =>
                      \A t \in EnabledCategories :
                          outcome.data[i].aggregated_data[TimePeriods[j]][t] = 0

\* The running sum of category t in the ChartData cd.
RunningSum(cd, t) ==
    IF t = "actual_consumption" THEN cd.sum_actual_consumption
    ELSE IF t = "actual_supply" THEN cd.sum_actual_supply
    ELSE IF t = "idle_consumption" THEN cd.sum_idle_consumption
    ELSE cd.sum_idle_supply

\* What the result of a cycle holds for the configuration it ended under.
AggregatedAsEnabled ==
        \A i \in DOMAIN outcome.data :
            \A p \in DOMAIN outcome.data[i].aggregated_data :
                /\ p \in DOMAIN outcome.data[i].chart_data
                /\ DOMAIN outcome.data[i].aggregated_data[p] = EnabledCategories
                /\ "actual_consumption" \in DOMAIN outcome.data[i].aggregated_data[p]
                /\ \A t \in EnabledCategories :
                      outcome.data[i].aggregated_data[p][t]
                          = RunningSum(outcome.data[i].chart_data[p], t)
                /\ (backend.chart.sumIdleConsumption = Null
                      /\ config.enable_idle_sensors = <<TRUE>>) =>
                      outcome.data[i].aggregated_data[p]["idle_consumption"] = 0

\* C14: for every period it aggregates, the aggregation emits exactly the
\* enabled categories (active consumption always, the others exactly when
\* the options enable them), each with the running sum of its ChartData, which
\* is zero when the response held no such sum: so it is whenever a cycle
\* ends with a result.
C14_AggregationEmitsEnabledCategories ==
    [][(outcome.kind # "done" /\ outcome'.kind = "done")
          => AggregatedAsEnabled']_vars

C14_Witness ==
    /\ outcome.kind = "done"
    /\ config.enable_supply_sensors = <<FALSE>>
    /\ config.enable_idle_sensors = <<TRUE>>
    /\ backend.chart = RawChartFull
    /\ Id2 \in DOMAIN outcome.data
    /\ "last_2_days" \in DOMAIN outcome.data[Id2].aggregated_data
    /\ DOMAIN outcome.data[Id2].aggregated_data["last_2_days"]
          = { "actual_consumption", "idle_consumption", "idle_supply" }
    /\ outcome.data[Id2].aggregated_data["last_2_days"]["idle_supply"] = 2
    /\ outcome.data[Id2].aggregated_data["last_2_days"]["idle_consumption"] = 0

\* The configured ids the registry holds, in the configured order.
ConfiguredAndRegistered ==
    SelectSeq(config.point_of_delivery,
              LAMBDA i : \E k \in 1..Len(pods) : pods[k].id = i)

\* C15: with configured POD ids, the active list of a cycle is the configured
\* ids without those the registry does not hold; the cycle is not aborted for
\* a missing id (it fails only when discovery fails), every POD of the active
\* list is fetched and is in the result, and an empty active list gives an
\* empty result.
C15_MissingConfiguredPodIsDropped ==
    config.point_of_delivery # << >> =>
        /\ PastDiscovery => pod_ids = ConfiguredAndRegistered
        /\ (CycleEnded /\ outcome.kind # "done") =>
              /\ op = "get_pods"
              /\ IsError(result) \/ result.data.pods = << >>
        /\ outcome.kind = "done" =>
              /\ log.fetched = AllFetches(pod_ids)
              /\ DOMAIN outcome.data = Elements(pod_ids)
              /\ pod_ids = << >> => outcome.data = EmptyDict

C15_Witness ==
    /\ config.point_of_delivery = <<Id3, Id1>>
    /\ Len(pods) = 2
    /\ outcome.kind = "done"
    /\ pod_ids = <<Id1>>
    /\ DOMAIN outcome.data = { Id1 }
    /\ Len(log.fetched) = NumPeriods

\* The discovery of the current cycle is over and the cycle ended with it.
EndedAtDiscovery == CycleEnded /\ op = "get_pods"

\* The errors of get_points_of_delivery that are authentication failures:
\* the client is not authenticated, the re-authentication failed, or the
\* retried request was answered with a login page.
AuthFailureKinds == { "NotAuthenticated", "ReauthFailed", "ContentTypeError" }

\* C16: an empty upstream list makes discovery fail with NoPodsFound, which
\* ends the cycle with UpdateFailed like every other failure that is no
\* authentication failure; an authentication failure ends it with
\* ConfigEntryAuthFailed, and no failure ends it with both or neither.
C16_DiscoveryFailureClasses ==
    EndedAtDiscovery =>
        /\ (result.kind = "value" /\ result.data.pods = << >>) =>
              /\ outcome.kind = "update_failed"
              /\ outcome.cause.kind = "NoPodsFound"
        /\ (result.kind = "value" /\ result.data.pods # << >>) =>
              outcome.kind = "done"
        /\ IsError(result) =>
              /\ outcome.cause = result
              /\ result.kind \in AuthFailureKinds => outcome.kind = "auth_failed"
              /\ result.kind \notin AuthFailureKinds =>
                    outcome.kind = "update_failed"

C16_Witness ==
    /\ EndedAtDiscovery
    /\ cycle = 2
    /\ result.kind = "ReauthFailed"
    /\ outcome.kind = "auth_failed"
    /\ ~authenticated

\* C18: every entry of the registry holds a POD of the upstream list under
\* the stable id its text yields, no key twice; the stable id of every POD of
\* the list that has one is a key; a POD without one does not make discovery fail
\* and is neither in the registry nor in the result of a cycle.
C18_RegistryKeyedByStableId ==
    /\ \A k \in 1..Len(pods) :
          /\ pods[k].pod \in Elements(found)
          /\ Len(pods[k].id) \in MinIdLen..MaxIdLen
          /\ StartsWithRun(pods[k].pod.text, Len(pods[k].id))
          /\ pods[k].id = SubSeq(pods[k].pod.text, 1, Len(pods[k].id))
          /\ \A j \in 1..Len(pods) : pods[j].id = pods[k].id => j = k
    /\ \A pod \in Elements(found) :
          IF IdLengths(pod.text) = {}
          THEN /\ \A k \in 1..Len(pods) : pods[k].pod # pod
               /\ \A i \in DOMAIN outcome.data :
                     outcome.data[i].pod_text # pod.text
          ELSE \E k \in 1..Len(pods) :
                  /\ Len(pods[k].id) \in IdLengths(pod.text)
                  /\ pods[k].id = SubSeq(pod.text, 1, Len(pods[k].id))
    /\ (EndedAtDiscovery /\ result.kind = "value"
          /\ result.data.pods # << >>) =>
          outcome.kind = "done" /\ found = result.data.pods

C18_Witness ==
    /\ found = <<PodBad, Pod1, Pod2>>
    /\ Keys(pods) = <<Id1, Id2>>
    /\ outcome.kind = "done"
    /\ DOMAIN outcome.data = { Id1, Id2 }
    /\ outcome.data[Id2].pod_text = Pod2.text

\* The response that ended the last request of the running call.
LastResponse == IF retry # NoResp THEN retry ELSE first

\* C19: a chart response without timestamps makes get_chart_data return, and
\* not raise, a ChartData with every series empty and every running sum 0,
\* whatever else the response holds; aggregated with only active consumption
\* enabled it gives 0 for its period.
C19_NoTimestampsGivesEmptyChartData ==
    /\ []((backend.chart.meteringDatetime = << >>
            /\ op = "get_chart" /\ pc = "idle" /\ phase = "data"
            /\ ~LastResponse.failed /\ LastResponse.status = 200
            /\ LastResponse.ctype = AppJson /\ LastResponse.body = "good") =>
              /\ result.kind = "value"
              /\ result.data.chart =
                    [metering_datetime |-> << >>, actual_consumption |-> << >>,
                     actual_supply |-> << >>, idle_consumption |-> << >>,
                     idle_supply |-> << >>, sum_actual_consumption |-> 0,
                     sum_actual_supply |-> 0, sum_idle_consumption |-> 0,
                     sum_idle_supply |-> 0])
    /\ [][(backend.chart.meteringDatetime = << >>
            /\ outcome.kind # "done" /\ outcome'.kind = "done"
            /\ config.enable_supply_sensors = <<FALSE>>
            /\ config.enable_idle_sensors = <<FALSE>>) =>
              \A i \in DOMAIN outcome'.data :
                  \A p \in DOMAIN outcome'.data[i].chart_data :
                      outcome'.data[i].aggregated_data[p]
                          = [t \in { "actual_consumption" } |-> 0]]_vars

C19_Witness ==
    /\ backend.chart = RawChartNoTimestamps
    /\ backend.chart.sumActualConsumption = <<9>>
    /\ outcome.kind = "done"
    /\ config.enable_supply_sensors = <<FALSE>>
    /\ config.enable_idle_sensors = <<FALSE>>
    /\ Id1 \in DOMAIN outcome.data
    /\ DOMAIN outcome.data[Id1].chart_data = { "yesterday", "last_2_days" }
    /\ outcome.data[Id1].aggregated_data["yesterday"]
          = [t \in { "actual_consumption" } |-> 0]
    /\ op = "get_chart" /\ phase = "data" /\ result.kind = "value"

-----------------------------------------------------------------------------
(* Properties of get_chart_data called directly *)

\* The upstream POD list holds a POD whose text yields the stable id i and
\* whose session-scoped value is not empty.
Resolvable(i) ==
    \E k \in 1..Len(backend.pods) :
        /\ Len(i) \in IdLengths(backend.pods[k].text)
        /\ i = SubSeq(backend.pods[k].text, 1, Len(i))
        /\ Len(i) = 20 \/ ~StartsWithRun(backend.pods[k].text, Len(i) + 1)
        /\ backend.pods[k].value # ""

\* C20: get_chart_data called on an authenticated client with a stable id
\* that resolves to no session-scoped value or to no descriptor text fails
\* with a POD-not-found error naming the id, and it sends the chart request
\* only after both lookups have resolved the id.
C20_UnresolvedPodSendsNoChartRequest ==
    (op = "get_chart" /\ pc = "idle" /\ pre[1]) =>
        /\ ~Resolvable(pod_id) =>
              phase = "sid" /\ result.kind = "PodNotFound"
        /\ phase \in { "sid", "text" } =>
              /\ result.kind \in { "PodNotFound", "PodTextNotFound" }
              /\ SubSeq(result.msg, Len(result.msg) - Len(pod_id) + 1,
                        Len(result.msg)) = pod_id
        /\ phase = "data" => Resolvable(pod_id)
        /\ phase \in { "sid", "text", "data" }

C20_Witness ==
    /\ op = "get_chart" /\ pc = "idle" /\ pre[1]
    /\ pod_id = Id2
    /\ ~first.failed /\ first.status = 200 /\ first.body = "good"
    /\ first.ctype = AppJson
    /\ result.kind = "PodNotFound"
    /\ phase = "sid"
    /\ nSend = 1

-----------------------------------------------------------------------------
(* Properties of get_metering_data called directly *)

\* get_metering_data has returned or raised after a metering response that
\* is well formed: status 200, JSON of the endpoint's shape.
MeteringAnswered ==
    /\ op = "get_metering" /\ pc = "idle" /\ phase = "data"
    /\ ~LastResponse.failed /\ LastResponse.status = 200
    /\ LastResponse.ctype = AppJson /\ LastResponse.body = "good"

\* The rows of the response with at least n values, in response order.
RowsOfAtLeast(n) == SelectSeq(backend.rows, LAMBDA v : Len(v) >= n)

C22_OneDataPointPerRow ==
    MeteringAnswered =>
        /\ result.kind = "value"
        /\ Len(result.data.rows) = Len(backend.rows)
        /\ \A k \in 1..Len(result.data.rows) :
              /\ result.data.rows[k].metering_datetime
                    = ReplaceZ(backend.rows[k][1])
              /\ result.data.rows[k].actual_consumption = backend.rows[k][3]
              /\ result.data.rows[k].actual_supply = backend.rows[k][5]

\* C24 as claimed: in every ChartData get_chart_data returns, each of the
\* four measurement series is empty or as long as the timestamp list, also
\* when a series of the response holds null entries.
C24_SeriesAlignedWithTimestamps ==
    (op = "get_chart" /\ pc = "idle" /\ result.kind = "value") =>
        \A n \in { Len(result.data.chart.actual_consumption),
                   Len(result.data.chart.actual_supply),
                   Len(result.data.chart.idle_consumption),
                   Len(result.data.chart.idle_supply) } :
            n = 0 \/ n = Len(result.data.chart.metering_datetime)

-----------------------------------------------------------------------------
(* Properties of the poll cycle: freshness, pacing and order *)

\* C26 as claimed: in every cycle that returns a result, the session-scoped
\* value and the descriptor text reported for a POD are those of the upstream
\* POD list the chart requests of that cycle were built from, also after the
\* portal has changed the session-scoped values since an earlier cycle.
C26_OutputHoldsLatestSessionValue ==
    outcome.kind = "done" =>
        \A k \in 1..Len(log.sent) :
            /\ log.sent[k].id \in DOMAIN outcome.data
            /\ outcome.data[log.sent[k].id].session_pod_id = log.sent[k].pod.value
            /\ outcome.data[log.sent[k].id].pod_text = log.sent[k].pod.text

\* The chart fetches started so far in the cycle.
Started == Len(log.fetched) + IF cpc = "fetch" THEN 1 ELSE 0

\* C27: within a cycle exactly one delay lies between two consecutive chart
\* fetches: the delay before a fetch that is not the first of its POD, and
\* the delay after a POD that is not the last; no delay precedes the first
\* fetch of a POD other than the one after the POD before, and none follows
\* the last POD.
C27_DelaysBetweenFetches ==
    /\ log.delays =
          [j \in 1..(Started - 1) |->
              <<IF j % NumPeriods = 0 THEN "pod" ELSE "period", j>>]
    /\ cpc \in { "sleep_period", "sleep_pod" } =>
          Len(log.fetched) < NumPeriods * Len(pod_ids)
    /\ outcome.kind = "done" => Len(log.delays) = Len(log.fetched) - 1
                                \/ log.fetched = << >>

C27_Witness ==
    /\ outcome.kind = "done"
    /\ Len(pod_ids) = 2
    /\ Len(log.fetched) = 2 * NumPeriods
    /\ log.delays[1] = <<"period", 1>>
    /\ log.delays[NumPeriods] = <<"pod", NumPeriods>>
    /\ Len(log.delays) = 2 * NumPeriods - 1

\* The periods in the order TIME_PERIODS_CONFIG registers them.
RegistrationOrder ==
    <<"yesterday", "last_2_days", "last_3_days", "last_7_days", "this_week",
      "this_month", "last_30_days">>

\* The fetch at position n of a cycle over the active list: all periods of
\* one POD before the first period of the next.
FetchAt(n) ==
    <<pod_ids[((n - 1) \div NumPeriods) + 1],
      RegistrationOrder[((n - 1) % NumPeriods) + 1]>>

\* C28: the chart fetches of a cycle are sequential: the fetches made are, in
\* order, the PODs of the active list in its order and for each POD the
\* periods in registration order; a request is in flight only during the one
\* call the cycle awaits, which is the next fetch of that order, and none
\* during a delay.
C28_FetchesSequentialInOrder ==
    /\ Len(log.fetched) <= NumPeriods * Len(pod_ids)
    /\ \A n \in 1..Len(log.fetched) : log.fetched[n] = FetchAt(n)
    /\ pc # "idle" => cpc \in { "discover", "fetch" }
    /\ cpc = "fetch" =>
          /\ op = "get_chart"
          /\ <<pod_id, RegistrationOrder[period_index]>> = FetchAt(Started)
          /\ pod_id = pod_ids[pod_index]
    /\ outcome.kind = "done" => Len(log.fetched) = NumPeriods * Len(pod_ids)

C28_Witness ==
    /\ cpc = "fetch"
    /\ pc = "await_response"
    /\ Len(pod_ids) = 2
    /\ log.fetched = <<<<pod_ids[1], "yesterday">>, <<pod_ids[1], "last_2_days">>,
                       <<pod_ids[2], "yesterday">>>>
    /\ pod_id = pod_ids[2]
    /\ period_index = 2

\* The registry reg is a whole snapshot of the upstream list l: it holds
\* PODs of l only, and a key for every POD of l that has a stable id.
Snapshot(reg, l) ==
    /\ \A k \in 1..Len(reg) : reg[k].pod \in Elements(l)
    /\ \A pod \in Elements(l) :
          IdLengths(pod.text) # {} =>
              \E k \in 1..Len(reg) :
                  /\ Len(reg[k].id) \in IdLengths(pod.text)
                  /\ reg[k].id = SubSeq(pod.text, 1, Len(reg[k].id))

\* C29: the registry changes only when a discovery succeeds, and then to a
\* whole snapshot of the list that discovery fetched; a discovery that fails
\* (transport error, authentication error, empty list) leaves the registry
\* as it was, and after every step the registry is a whole snapshot of the
\* last list fetched with success.
C29_RegistryReplacedWholeOnSuccess ==
    [][/\ pods' # pods =>
             /\ cpc = "discover" /\ pc = "idle"
             /\ result.kind = "value"
             /\ result.data.pods # << >>
             /\ found' = result.data.pods
       /\ (cpc = "discover" /\ pc = "idle"
             /\ (IsError(result) \/ result.data.pods = << >>)) =>
             pods' = pods /\ found' = found
       /\ Snapshot(pods', found')]_vars

C29_Witness ==
    /\ cycle = 2
    /\ EndedAtDiscovery
    /\ outcome.kind = "update_failed"
    /\ found = <<PodBad, Pod1, Pod2>>
    /\ Keys(pods) = <<Id1, Id2>>
    /\ backend.pods # found

\* The periods for which a fetch of POD i returned data in this cycle.
GotPeriods(i) == { log.got[k][2] : k \in { j \in 1..Len(log.got) : log.got[j][1] = i } }

\* C30: the result of a cycle holds only PODs of the cycle's active list, and
\* for each of them exactly the periods whose fetch returned data in this
\* cycle, with the data of that fetch: nothing of an earlier cycle or of
\* another POD is carried over.
C30_ResultOnlyFromThisCycle ==
    outcome.kind = "done" =>
        /\ DOMAIN outcome.data \subseteq Elements(pod_ids)
        /\ \A i \in DOMAIN outcome.data :
              /\ DOMAIN outcome.data[i].chart_data = GotPeriods(i)
              /\ DOMAIN outcome.data[i].aggregated_data = GotPeriods(i)

C30_Witness ==
    /\ cycle = 2
    /\ outcome.kind = "done"
    /\ Len(pod_ids) = 2
    /\ log.got = <<<<pod_ids[1], "yesterday">>, <<pod_ids[2], "last_2_days">>>>
    /\ DOMAIN outcome.data[pod_ids[2]].chart_data = { "last_2_days" }

-----------------------------------------------------------------------------
(* Migration of a config entry: async_migrate_entry (__init__.py) *)

\* any(len(pod) > 50 ...): a stored id longer than this is taken for a
\* session identifier of the old format.
SessionIdLen == 50

\* The text of n times the character c.
Repeat(c, n) == [k \in 1..n |-> c]

\* What the portal holds during a migration; the session identifiers have
\* the old format, 51 characters.
MigrationBackends ==
    { [pods |-> <<[text |-> Pod2.text, value |-> Repeat("c", SessionIdLen + 1)],
                  [text |-> PodBad.text, value |-> Repeat("b", SessionIdLen + 1)],
                  [text |-> Pod1.text, value |-> Repeat("a", SessionIdLen + 1)]>>,
       chart |-> RawChartEmpty, rows |-> << >>],
      [pods |-> << >>, chart |-> RawChartEmpty, rows |-> << >>] }

\* The point_of_delivery lists an entry of version 1 may hold: session
\* identifiers (of PODs of the portal, of a POD without stable id, of no
\* POD), descriptor texts (of the portal, with the number of a POD but another
\* name, of 50 characters), and none.
StoredLists ==
    { <<Repeat("a", SessionIdLen + 1), Repeat("z", SessionIdLen + 1),
        Repeat("c", SessionIdLen + 1)>>,
      <<Repeat("b", SessionIdLen + 1)>>,
      <<Repeat("x", SessionIdLen), Pod1.text>>,
      <<Pod1.text, Id1 \o <<" ","(","O","l","d",")">>, Pod2.text>>,
      <<Pod1.text>>,
      << >> }

\* The positions in the list l of the PODs that have a stable id and whose
\* field key ("value" or "text") is s: the PODs that put s into pod_mapping
\* (lines 104-116) or pod_text_to_id (lines 172-183).
Matches(l, key, s) ==
    { k \in 1..Len(l) : l[k][key] = s /\ PointOfDeliveryId(l[k].text).ok }

\* Faulty variant: an id the list does not resolve is kept as it is.
ConvertedKeepingUnresolved(stored, l, key) ==
    [j \in 1..Len(stored) |->
        IF Matches(l, key, stored[j]) = {} THEN stored[j]
        ELSE PointOfDeliveryId(
                 l[CHOOSE k \in Matches(l, key, stored[j]) :
                     \A m \in Matches(l, key, stored[j]) : m <= k].text).id]

\* The loop over the stored ids (lines 124-138, 244-256): the stable id the
\* dict holds for each stored id that is a key of it, in the stored order;
\* the dict holds for a key the id of the last POD that set it.
Converted(stored, l, key) ==
    LET sel == SelectSeq(stored, LAMBDA s : Matches(l, key, s) # {})
    IN [j \in 1..Len(sel) |->
          PointOfDeliveryId(
              l[CHOOSE k \in Matches(l, key, sel[j]) :
                  \A m \in Matches(l, key, sel[j]) : m <= k].text).id]

\* async_migrate_entry is called for an entry of version 1 or of another
\* version; the portal and the stored list are any of the above.
InitMigrate ==
    /\ ClientConstructed
    /\ ProbeUnused
    /\ second = SecondIdle
    /\ ReaderUnused
    /\ backend \in MigrationBackends
    /\ \E l \in StoredLists :
          config = [DefaultConfig EXCEPT !.point_of_delivery = l]
    /\ \E v \in { 1, 2 } :
          entry = [NotMigrating EXCEPT
                       !.version = v,
                       !.original = config.point_of_delivery,
                       !.runs = 1]
    /\ pods = << >>
    /\ cpc = "idle"
    /\ pod_ids = << >>
    /\ pod_index = 0
    /\ period_index = 0
    /\ chart_data_by_period = EmptyDict
    /\ all_pod_data = EmptyDict
    /\ outcome = NoOutcome
    /\ found = << >>
    /\ cycle = 0
    /\ log = NoCalls
    /\ update_interval = config.scan_interval
    /\ refreshes = 0
    /\ old_config = config

\* A step of async_migrate_entry leaves the entry as e and its data as cfg;
\* no coordinator exists yet.
MigrationStep(e, cfg) ==
    /\ entry' = e
    /\ config' = cfg
    /\ UNCHANGED <<backend, second, reader, pods, cpc, pod_ids, pod_index,
                   period_index,
                   chart_data_by_period, all_pod_data, outcome, found, cycle,
                   log, update_interval, refreshes, old_config>>

\* async_migrate_entry up to its first await (lines 78-100, 156-168): False for
\* another version than 1, True when no id is stored, and otherwise the login
\* of a new client with the stored credentials.
MigrateEntry ==
    /\ entry.pc = "idle"
    /\ pc = "idle"
    /\ IF entry.version # 1
       THEN /\ MigrationStep([entry EXCEPT !.pc = "done", !.returned = "false"],
                             config)
            /\ UNCHANGED caller
       ELSE IF config.point_of_delivery = << >>
       THEN /\ MigrationStep([entry EXCEPT !.pc = "done", !.returned = "true"],
                             config)
            /\ UNCHANGED caller
       ELSE /\ MigrationStep(
                   [entry EXCEPT
                        !.pc = "auth",
                        !.branch =
                            IF \E k \in 1..Len(config.point_of_delivery) :
                                   Len(config.point_of_delivery[k]) > SessionIdLen
                            THEN "session ids" ELSE "texts"],
                   config)
            /\ Authenticate("alice", "pw1")
            /\ UNCHANGED pod_id

\* authenticate has returned (lines 101-103, 169-171): the POD list is
\* requested after a login that succeeded. After one that failed the first
\* branch returns False (the else of line 146); the second has no else and
\* runs on to the return True of line 272.
MigrateAuthenticated ==
    /\ entry.pc = "auth"
    /\ pc = "idle"
    /\ IF result = Bool(TRUE)
       THEN /\ MigrationStep([entry EXCEPT !.pc = "pods"], config)
            /\ GetPointsOfDelivery
            /\ UNCHANGED pod_id
       ELSE /\ MigrationStep(
                   [entry EXCEPT !.pc = "done",
                                 !.returned = IF entry.branch = "session ids"
                                              THEN "false" ELSE "true"],
                   config)
            /\ UNCHANGED caller

\* get_points_of_delivery has returned or raised (lines 103-154, 171-272).
\* An error makes the first branch return False (line 150) and is only
\* logged by the second (line 264). The first branch stores the converted
\* list; the second stores it when some stored text is no text of the list
\* and the converted list differs from the stored one (lines 191-262): the
\* list built by the loop of line 205 is always replaced by the one of its
\* else clause (line 241), which no break of that loop skips.
MigrateDiscovered ==
    /\ entry.pc = "pods"
    /\ pc = "idle"
    /\ UNCHANGED caller
    /\ LET stored == config.point_of_delivery
           key == IF entry.branch = "session ids" THEN "value" ELSE "text"
           new == Converted(stored, result.data.pods, key)
           missing == \E k \in 1..Len(stored) :
                          Matches(result.data.pods, "text", stored[k]) = {}
       IN IF IsError(result)
          THEN MigrationStep(
                   [entry EXCEPT
                        !.pc = "done",
                        !.returned = IF entry.branch = "session ids"
                                     THEN "false" ELSE "true"],
                   config)
          ELSE IF entry.branch = "session ids" \/ (missing /\ new # stored)
          THEN MigrationStep(
                   [entry EXCEPT !.pc = "done", !.returned = "true",
                                 !.updates = @ + 1],
                   [config EXCEPT !.point_of_delivery = new])
          ELSE MigrationStep([entry EXCEPT !.pc = "done", !.returned = "true"],
                             config)

\* How often async_migrate_entry is called for an entry.
MaxMigrations == 2

\* async_migrate_entry is called again for the entry a call that returned
\* True has left, whose version is still 1 (no line of the function changes
\* it); the call makes a new client (lines 93-94, 161-162).
MigrateAgain ==
    /\ entry.pc = "done"
    /\ entry.returned = "true"
    /\ entry.runs < MaxMigrations
    /\ MigrationStep([entry EXCEPT !.pc = "idle", !.branch = "none",
                                   !.returned = "none", !.updates = 0,
                                   !.original = config.point_of_delivery,
                                   !.runs = @ + 1,
                                   !.rewrote = entry.updates > 0],
                     config)
    /\ authenticated' = FALSE
    /\ session_token' = None
    /\ username' = None
    /\ password' = None
    /\ op' = "none"
    /\ phase' = "none"
    /\ result' = NoResult
    /\ args' = <<None, None>>
    /\ pre' = <<FALSE, None, None, None>>
    /\ nLogin' = 0
    /\ nSend' = 0
    /\ first' = NoResp
    /\ login' = NoResp
    /\ retry' = NoResp
    /\ hist' = "fresh"
    /\ UNCHANGED <<pc, pod_id, probe, probeOut>>

\* A step of the client of the migration: async_migrate_entry awaits it.
NextMigrate ==
    \/ MigrateEntry
    \/ MigrateAuthenticated
    \/ MigrateDiscovered
    \/ MigrateAgain
    \/ \E r \in CycleResponses : RecvResponse(r) /\ Awaited
    \/ \E l \in CycleLoginResponses : RecvLogin(l) /\ Awaited
    \/ \E r \in CycleResponses : RecvRetry(r) /\ Awaited

SpecMigrate == InitMigrate /\ [][NextMigrate]_vars

-----------------------------------------------------------------------------
(* Properties of the migration of a config entry *)

\* C23: when the login of a migration fails, async_migrate_entry returns
\* False and the stored list of ids is left as it was, be the stored ids
\* session identifiers (one longer than 50 characters) or descriptor texts.
C23_FailedLoginFailsMigration ==
    (/\ entry.pc = "done"
     /\ entry.branch # "none"
     /\ op = "authenticate"
     /\ result = Bool(FALSE))
        => /\ entry.returned = "false"
           /\ entry.updates = 0
           /\ config.point_of_delivery = entry.original

\* The stable ids of the PODs of the portal whose field key is s: the longest
\* run of 16 to 20 upper-case letters and digits their text starts with.
ResolvedIds(key, s) ==
    { SubSeq(backend.pods[k].text, 1,
             CHOOSE n \in IdLengths(backend.pods[k].text) :
                 \A m \in IdLengths(backend.pods[k].text) : m <= n) :
        k \in { j \in 1..Len(backend.pods) :
                  /\ backend.pods[j][key] = s
                  /\ IdLengths(backend.pods[j].text) # {} } }

\* The positions of the list stored before the migration whose id the
\* portal resolves.
ResolvablePositions(key) ==
    { k \in 1..Len(entry.original) : ResolvedIds(key, entry.original[k]) # {} }

-----------------------------------------------------------------------------
(* Properties of the client's state across calls *)

\* C33 as claimed: whenever the client is authenticated it holds credentials
\* that _reauthenticate accepts, so that a login can be attempted.
C33_AuthenticatedCanReauthenticate ==
    authenticated => ~NoStoredCredentials

\* C33 as amended: whenever the client is authenticated, username and password
\* are not None: they are the arguments of the last authenticate call, be they
\* empty or not.
C33_AuthenticatedHoldsCredentials ==
    authenticated =>
        /\ username # None
        /\ password # None
        /\ <<username, password>> = args

\* An authenticated client with an empty username saw an expiry signal and
\* could not attempt a login.
C33_Witness ==
    /\ authenticated
    /\ username = ""
    /\ RequestDone
    /\ FirstExpired
    /\ nLogin = 0
    /\ result = Error("ReauthFailed", 0)

\* C34 as claimed: whenever the client is authenticated its session token is
\* not None.
C34_AuthenticatedHoldsToken ==
    authenticated => session_token # None

\* C34 as amended: a token is held only by an authenticated client, and the
\* token of an authenticated client is the value of the SsdAccessToken cookie
\* of the login response accepted last, None when it carried no such cookie:
\* the token changes, or the flag rises, only when a login response is
\* accepted, and only a reset of the session clears it.
C34_TokenIsCookieOfAcceptedLogin ==
    /\ [](session_token # None => authenticated)
    /\ [][(session_token' # session_token \/ (authenticated' /\ ~authenticated))
            => IF authenticated'
               THEN /\ pc = "await_login"
                    /\ LoginAccepted(login')
                    /\ session_token' = login'.cookie
               ELSE session_token' = None]_vars

\* authenticate has returned True for a response without the cookie.
C34_Witness ==
    /\ op = "authenticate"
    /\ pc = "idle"
    /\ result = Bool(TRUE)
    /\ login.cookie = None
    /\ authenticated
    /\ session_token = None

\* C35: after a re-authentication whose login was rejected the client is
\* unauthenticated with its credentials still stored; a request that starts on
\* an unauthenticated client fails with NotAuthenticated and sends nothing;
\* and the flag rises again only when a login is accepted that authenticate or
\* _reauthenticate, called on its own, has sent, never in a request that
\* started unauthenticated.
C35_FailedReauthIsSticky ==
    /\ []((/\ pc = "idle"
           /\ op \in SessionOps \cup { "reauthenticate" }
           /\ nLogin = 1
           /\ ~LoginAccepted(login))
              => ~authenticated /\ ~NoStoredCredentials)
    /\ [][/\ (pc = "idle" /\ ~authenticated /\ op' \in SessionOps)
                => /\ pc' = "idle"
                   /\ result' = Error("NotAuthenticated", 0)
                   /\ nSend' = 0
                   /\ nLogin' = 0
                   /\ ~authenticated'
          /\ (~authenticated /\ authenticated')
                => /\ pc = "await_login"
                   /\ LoginAccepted(login')
                   /\ (op \in { "authenticate", "reauthenticate" } \/ pre[1])]_vars

\* A request was refused on a client that has had a session, was not logged
\* out and still holds its credentials.
C35_Witness ==
    /\ op \in SessionOps
    /\ pc = "idle"
    /\ hist = "session"
    /\ ~pre[1]
    /\ pre[3] = "alice"
    /\ pre[4] = "pw1"
    /\ result = Error("NotAuthenticated", 0)
    /\ nSend = 0

\* C36 as claimed: an authenticate that returns False leaves the stored
\* credentials as they were before the call.
C36_FailedAuthenticateKeepsCredentials ==
    (op = "authenticate" /\ pc = "idle" /\ result = Bool(FALSE)) =>
        /\ username = pre[3]
        /\ password = pre[4]

-----------------------------------------------------------------------------
(* Properties of the registry against the client's resolution *)

\* C37 as claimed: the POD the registry holds for a stable id is the POD the
\* client resolves that id to in the list the registry was built from, with
\* the same session identifier and the same text, also when two descriptors
\* of the list yield the id.
C37_RegistryAgreesWithResolution ==
    \A k \in 1..Len(pods) :
        /\ FirstWithId(found, pods[k].id) # 0
        /\ pods[k].pod = found[FirstWithId(found, pods[k].id)]

\* C38 as claimed: a call of async_migrate_entry on the entry that the call
\* before has rewritten, with the same upstream list, leaves the stored list
\* of ids as it found it.
C38_SecondMigrationChangesNothing ==
    (entry.runs >= 2 /\ entry.rewrote /\ entry.pc = "done") =>
        config.point_of_delivery = entry.original

-----------------------------------------------------------------------------
(* Properties of the options: update_config and the first cycle *)

\* C32: update_config requests a refresh exactly when the new configuration
\* differs from the coordinator's configuration before the call in one of the
\* two sensor options, and sets the poll interval, to the new one, exactly
\* when the interval differs; a change of the interval alone requests none.
C32_RefreshOnSensorChangeOnly ==
    [][LET sensors ==
              \/ config'.enable_supply_sensors # config.enable_supply_sensors
              \/ config'.enable_idle_sensors # config.enable_idle_sensors
           interval == config'.scan_interval # config.scan_interval
       IN /\ refreshes' = IF sensors THEN refreshes + 1 ELSE refreshes
          /\ update_interval' =
                IF interval THEN config'.scan_interval ELSE update_interval
          /\ (interval /\ ~sensors) => refreshes' = refreshes]_vars

\* The last update_config changed the interval alone, and the only refresh
\* requested so far is that of the first call, which set the sensor options.
C32_Witness ==
    /\ old_config.scan_interval # config.scan_interval
    /\ old_config.enable_supply_sensors # << >>
    /\ old_config.enable_supply_sensors = config.enable_supply_sensors
    /\ old_config.enable_idle_sensors = config.enable_idle_sensors
    /\ update_interval = config.scan_interval
    /\ refreshes = 1

\* The categories the options stored in the entry enable.
StoredCategories ==
    { "actual_consumption" }
    \cup (IF entry.options.enable_supply_sensors
          THEN { "actual_supply" } ELSE {})
    \cup (IF entry.options.enable_idle_sensors
          THEN { "idle_consumption", "idle_supply" } ELSE {})

\* C39 as claimed: the first cycle after setup aggregates the categories the
\* options stored in the entry enable.
C39_FirstCycleUsesStoredOptions ==
    (cycle = 1 /\ outcome.kind = "done") =>
        \A i \in DOMAIN outcome.data :
            \A p \in DOMAIN outcome.data[i].aggregated_data :
                DOMAIN outcome.data[i].aggregated_data[p] = StoredCategories

-----------------------------------------------------------------------------
(* Properties of the end of a cycle *)

\* C31: when every network call returns or times out, every poll cycle ends,
\* and it ends in one of three ways: with a result mapping, with
\* ConfigEntryAuthFailed or with UpdateFailed; no other error leaves it.
C31_CycleEndsInOneOfThree ==
    /\ [](CycleEnded => outcome.kind \in { "done", "auth_failed", "update_failed" })
    /\ [](cpc # "idle" => outcome = Running)
    /\ (cpc # "idle") ~> CycleEnded

\* A cycle whose discovery timed out has ended with UpdateFailed.
C31_Witness ==
    /\ CycleEnded
    /\ outcome.kind = "update_failed"
    /\ outcome.cause.kind = "ClientError"
    /\ first = TransportFailure

-----------------------------------------------------------------------------
(* Properties of two interleaved requests *)

\* C40 as claimed: on a client that has been authenticated with credentials
\* every login of which is accepted, neither of two interleaved requests
\* fails with "Not authenticated".
C40_NoInterleavedRequestFailsGuard ==
    /\ result.kind # "NotAuthenticated"
    /\ second.result.kind # "NotAuthenticated"
=============================================================================

